---- MODULE Spec2Model ----
(***************************************************************************)
(* Model of the audio-reactive light controller: the layout model          *)
(* (light_layout.py), the band normalisation and colour mapping            *)
(* (audio_engine.py) and the pattern engine (pattern_engine.py).           *)
(*                                                                         *)
(* Real numbers are fixed-point integers: a value x is held as the integer *)
(* x * Scale.  Scale = 1900 makes every decimal constant of the source     *)
(* with two decimals exact, and also every phase k/N for the fixture       *)
(* counts N used here (1, 2, 4, 5, 10, 19, 20).  A product or quotient of  *)
(* two such numbers is floored to the next lower unit.  Seconds use the    *)
(* same unit: one tick of the clock is 1/Scale s.                          *)
(***************************************************************************)
EXTENDS Integers, Sequences, FiniteSets

VARIABLES
    layout,   \* LightLayout: the six zone counts
    cfg,      \* PatternEngine constructor arguments
    eng,      \* PatternEngine beat detector state
    now,      \* last value read from the clock, minus _start_time
    call,     \* the last compute() call: its arguments, clock reads and effects
    states,   \* the list compute() returned last
    log,      \* per frame of a scripted run: clock reading, bass, beat or not
    lights,   \* what each iter_lights() pass made so far yielded
    spectrum, \* fft_frequency_bands: magnitudes, sample_rate and fft_size
    raw,      \* the five raw band energies it derived
    norm,     \* the FrequencyBands it returned
    link,     \* the driver loop and its ResoniteClient: position, ids, messages
    probe,    \* a function of audio_engine.py called on its own: arguments, result
    source    \* FileSource: the samples loaded, _pos, what read() returned so far

vars == <<layout, cfg, eng, now, call, states, log, lights, spectrum, raw, norm, link, probe,
         source>>

\* Python's None; an optional value is this record or a record of other fields
None == [none |-> TRUE]

(***************************************************************************)
(* Fixed-point arithmetic.                                                 *)
(***************************************************************************)
Scale == 19 * 100

\* the decimal n/100 as a fixed-point number
Pct(n) == n * 19

Min(a, b) == IF a <= b THEN a ELSE b
Max(a, b) == IF a >= b THEN a ELSE b
Abs(a) == IF a >= 0 THEN a ELSE 0 - a

\* x * y of two fixed-point numbers
Mul(x, y) == (x * y) \div Scale

\* x / y of two fixed-point numbers, y # 0
Div(x, y) == (x * Scale) \div y

\* Python's x % 1.0: the result lies in [0, 1) for every sign of x
Mod1(x) == x % Scale

\* floor(a * b / c) for a, c >= 0 and b >= 0, without forming a * b
RECURSIVE MulDivRem(_, _, _)
MulDivRem(a, b, c) ==
    IF b = 0 THEN <<0, 0>>
    ELSE LET h == MulDivRem(a, b \div 2, c)
             r == 2 * h[2] + (b % 2) * a
         IN  <<2 * h[1] + (r \div c), r % c>>

MulDiv(a, b, c) == MulDivRem(a, b, c)[1]

(***************************************************************************)
(* light_layout.py                                                         *)
(***************************************************************************)
Zone == {"left", "right", "front", "back", "top", "bottom"}

\* the order of the list iter_lights walks
ZoneList == <<"left", "right", "front", "back", "top", "bottom">>

LightLayout(l, r, f, b, t, bo) ==
    [left |-> l, right |-> r, front |-> f, back |-> b, top |-> t, bottom |-> bo]

total_lights(lay) ==
    lay.left + lay.right + lay.front + lay.back + lay.top + lay.bottom

LightDescriptor(gi, z, zi, zc) ==
    [global_index |-> gi, zone |-> z, zone_index |-> zi, zone_count |-> zc]

\* the lights of zones k..6, idx being the running counter of the generator
RECURSIVE IterZones(_, _, _)
IterZones(lay, k, idx) ==
    IF k > Len(ZoneList) THEN <<>>
    ELSE LET zone == ZoneList[k]
             count == lay[zone]
         IN  [i \in 1..count |-> LightDescriptor(idx + i - 1, zone, i - 1, count)]
                 \o IterZones(lay, k + 1, idx + count)

\* iter_lights with a fault seeded: the bottom zone is left out
IterLightsNoBottom(lay) == SubSeq(IterZones(lay, 1, 0), 1, total_lights(lay) - lay.bottom)

\* iter_lights with a fault seeded: the counter restarts in every zone
IterLightsResetIdx(lay) ==
    LET zoneOf(k) == [i \in 1..lay[ZoneList[k]] |->
                         LightDescriptor(i - 1, ZoneList[k], i - 1, lay[ZoneList[k]])]
    IN  zoneOf(1) \o zoneOf(2) \o zoneOf(3) \o zoneOf(4) \o zoneOf(5) \o zoneOf(6)

iter_lights(lay) == IterZones(lay, 1, 0)

(***************************************************************************)
(* audio_engine.py                                                         *)
(***************************************************************************)
FrequencyBands(l, u, m, h, o) ==
    [low |-> l, upper_bass |-> u, mid |-> m, high |-> h, overall |-> o]

\* Raw magnitudes and raw band energies are held in units of 1e-7, so that
\* the floor 1e-6 of the normalisation is the integer 10.
RawEps == 2 * 5

RECURSIVE SumSeq(_)
SumSeq(s) == IF s = <<>> THEN 0 ELSE Head(s) + SumSeq(Tail(s))

\* band_energy of fft_frequency_bands; bin_width = sample_rate / fft_size,
\* bin b of the spectrum is mags[b + 1]
band_energy(mags, sample_rate, fft_size, low_hz, high_hz) ==
    LET low_bin == Max(0, (low_hz * fft_size) \div sample_rate)
        high_bin == Min(((high_hz * fft_size) \div sample_rate) + 1, Len(mags))
    IN  IF high_bin <= low_bin THEN 0
        ELSE SumSeq(SubSeq(mags, low_bin + 1, high_bin)) \div (high_bin - low_bin)

\* the five raw energies, in the order low, upper_bass, mid, high, overall
RawEnergies(mags, sample_rate, fft_size) ==
    << band_energy(mags, sample_rate, fft_size, 20, 250),
       band_energy(mags, sample_rate, fft_size, 60, 150),
       band_energy(mags, sample_rate, fft_size, 250, 2000),
       band_energy(mags, sample_rate, fft_size, 2000, 20000),
       band_energy(mags, sample_rate, fft_size, 20, 20000) >>

MaxOf5(e) == Max(e[1], Max(e[2], Max(e[3], Max(e[4], e[5]))))

\* the divisor with a fault seeded: the 1e-6 floor of the divisor is left out
NormDivisorNoFloor(e) == MaxOf5(e) * 2

\* the divisor of the normalisation: scale = 1.0 / NormDivisor
NormDivisor(e) == Max(RawEps, MaxOf5(e) * 2)

\* min(1.0, x * scale) for scale = 1.0 / d
Normalized(x, d) == Min(Scale, MulDiv(x, Scale, d))

\* the FrequencyBands fft_frequency_bands returns for raw energies e; a
\* divisor of 0 is the ZeroDivisionError of 1.0 / 0.0
Normalize(e) ==
    LET d == NormDivisor(e)
    IN  IF d = 0 THEN [raised |-> "ZeroDivisionError"]
        ELSE FrequencyBands(Normalized(e[1], d), Normalized(e[2], d), Normalized(e[3], d),
                            Normalized(e[4], d), Normalized(e[5], d))

\* base_hue + energy * 0.7, the dividend of energy_to_hue
EnergyHueSum(energy, base_hue) == base_hue + Mul(energy, Pct(70))

\* energy_to_hue with a fault seeded: no % 1.0
EnergyToHueNoWrap(energy, base_hue) == EnergyHueSum(energy, base_hue)

energy_to_hue(energy, base_hue) == Mod1(EnergyHueSum(energy, base_hue))

\* h of rgb_to_hue for a colour that is not achromatic, in sixths of the circle
RgbHueSextant(r, g, b) ==
    LET mx == Max(r, Max(g, b))
        mn == Min(r, Min(g, b))
        d == mx - mn
    IN  IF mx = r THEN Div(g - b, d) + (IF g < b THEN 6 * Scale ELSE 0)
        ELSE IF mx = g THEN Div(b - r, d) + 2 * Scale
        ELSE Div(r - g, d) + 4 * Scale

rgb_to_hue(r, g, b) ==
    LET mx == Max(r, Max(g, b))
        mn == Min(r, Min(g, b))
    IN  IF mx = mn THEN 0 ELSE Mod1(RgbHueSextant(r, g, b) \div 6)

\* Python's int(x) of a fixed-point number: truncation towards zero
Trunc(x) == IF x >= 0 THEN x \div Scale ELSE 0 - ((0 - x) \div Scale)

\* hue_to_rgb with a fault seeded: q and t are built without the 1 - ... complement
HueToRgbNoComplement(hue, saturation, value) ==
    LET h == hue * 6
        i == Trunc(h) % 6
        f == h - Trunc(h) * Scale
        p == Mul(value, Scale - saturation)
        q == Mul(value, Scale + Mul(saturation, f))
        t == Mul(value, Scale + Mul(saturation, Scale - f))
    IN  << <<value, t, p>>, <<q, value, p>>, <<p, value, t>>,
           <<p, q, value>>, <<t, p, value>>, <<value, p, q>> >>[i + 1]

hue_to_rgb(hue, saturation, value) ==
    LET h == hue * 6
        i == Trunc(h) % 6
        f == h - Trunc(h) * Scale
        p == Mul(value, Scale - saturation)
        q == Mul(value, Scale - Mul(saturation, f))
        t == Mul(value, Scale - Mul(saturation, Scale - f))
    IN  << <<value, t, p>>, <<q, value, p>>, <<p, value, t>>,
           <<p, q, value>>, <<t, p, value>>, <<value, p, q>> >>[i + 1]

energy_to_color(energy, base_hue) ==
    hue_to_rgb(energy_to_hue(energy, base_hue), Pct(85), Pct(35) + Mul(Pct(65), energy))

\* total = low + mid + high + 1e-6 is formed in units of 1 / (Scale * 10000),
\* in which 1e-6 is the integer 19
BandsHueQuotient(bands) ==
    LET total == (bands.low + bands.mid + bands.high) * 10000 + 19
        weighted == (33 * bands.mid + 66 * bands.high) * 100
    IN  MulDiv(weighted, Scale, total)

bands_to_hue(bands) == Mod1(BandsHueQuotient(bands))

(***************************************************************************)
(* pattern_engine.py                                                       *)
(***************************************************************************)
Pattern ==
    {"chase", "chase_reverse", "swirl", "front_to_back", "back_to_front",
     "left_off", "right_off", "left_right_alt", "center_out", "upper_bass",
     "bass_flood", "treble_hue", "band_split", "music_color", "breathing",
     "all_on", "zone_mix", "beat_hue"}

LightState(r, g, b, intensity, rotation_y) ==
    [r |-> r, g |-> g, b |-> b, intensity |-> intensity, rotation_y |-> rotation_y]

DEFAULT_ZONE_MIX_SETS ==
    << [top |-> "chase", left |-> "left_off", right |-> "right_off",
        front |-> "bass_flood", back |-> "center_out", bottom |-> "bass_flood"],
       [top |-> "center_out", left |-> "chase", right |-> "chase",
        front |-> "left_right_alt", back |-> "music_color", bottom |-> "music_color"],
       [top |-> "swirl", left |-> "bass_flood", right |-> "bass_flood",
        front |-> "center_out", back |-> "left_off", bottom |-> "left_right_alt"],
       [top |-> "music_color", left |-> "left_right_alt", right |-> "left_right_alt",
        front |-> "chase", back |-> "right_off", bottom |-> "center_out"] >>

\* the constructor: zone_mix_sets or DEFAULT_ZONE_MIX_SETS
PatternEngine(tail, enabled, speed, audio_boost, sets, cycle_seconds) ==
    [chase_tail |-> tail, rotation_enabled |-> enabled,
     rotation_speed |-> speed, rotation_audio_boost |-> audio_boost,
     zone_mix_sets |-> IF sets = <<>> THEN DEFAULT_ZONE_MIX_SETS ELSE sets,
     zone_cycle_seconds |-> cycle_seconds]

\* the state the constructor sets: the beat detector state and _start_time,
\* the constructor's clock reading, which is the origin of every time here
FreshEngine == [prev_bass |-> 0, beat_hue |-> 0, last_beat_time |-> 0, start_time |-> 0]

beat_cooldown == Pct(15)

\* _detect_beat with a fault seeded: the cooldown test is left out
DetectBeatNoCooldown(e, bands, t) ==
    IF bands = None THEN [beat |-> FALSE, eng |-> e]
    ELSE LET bass == bands.upper_bass
             rise == bass - e.prev_bass
             beat == rise > Pct(25) /\ bass > Pct(30)
         IN  [beat |-> beat,
              eng |-> [e EXCEPT !.prev_bass = bass,
                                !.last_beat_time = IF beat THEN t ELSE @]]

\* _detect_beat with a fault seeded: the bass is not remembered and the
\* cooldown test is left out, every call of a frame sees the same rise
DetectBeatNoMemory(e, bands, t) ==
    IF bands = None THEN [beat |-> FALSE, eng |-> e]
    ELSE LET bass == bands.upper_bass
             rise == bass - e.prev_bass
             beat == rise > Pct(25) /\ bass > Pct(30)
         IN  [beat |-> beat,
              eng |-> [e EXCEPT !.last_beat_time = IF beat THEN t ELSE @]]

\* _detect_beat: t is the clock read of this call
detect_beat(e, bands, t) ==
    IF bands = None THEN [beat |-> FALSE, eng |-> e]
    ELSE LET bass == bands.upper_bass
             rise == bass - e.prev_bass
             beat == /\ rise > Pct(25)
                     /\ (t - e.last_beat_time) >= beat_cooldown
                     /\ bass > Pct(30)
         IN  [beat |-> beat,
              eng |-> [e EXCEPT !.prev_bass = bass,
                                !.last_beat_time = IF beat THEN t ELSE @]]

\* _phase with speed = 1.0
phase_of(t) == Mod1(t)

\* _chase_intensity with a fault seeded: the distance is taken the other way round
ChaseIntensityBehind(n, ld, phase, tail_len, reverse) ==
    IF n = 0 THEN 0
    ELSE LET ph == IF reverse THEN Scale - phase ELSE phase
             head_pos == ph * n
             dist == (head_pos - ld.global_index * Scale + n * Scale) % (n * Scale)
         IN  IF dist <= tail_len * Scale THEN Scale - (dist \div (tail_len + 1)) ELSE 0

\* _chase_intensity; n = self.layout.total_lights()
chase_intensity(n, ld, phase, tail_len, reverse) ==
    IF n = 0 THEN 0
    ELSE LET ph == IF reverse THEN Scale - phase ELSE phase
             head_pos == ph * n
             dist == (ld.global_index * Scale - head_pos + n * Scale) % (n * Scale)
         IN  IF dist <= tail_len * Scale THEN Scale - (dist \div (tail_len + 1)) ELSE 0

\* zone_order.index(ld.zone) of _front_to_back_intensity
FrontToBackIndex(zone) ==
    CASE zone = "front" -> 0 [] zone = "left" -> 1 [] zone = "right" -> 2
      [] zone = "back" -> 3 [] zone = "top" -> 4 [] zone = "bottom" -> 5

front_to_back_intensity(ld, phase, reverse) ==
    LET ph == IF reverse THEN Scale - phase ELSE phase
        zone_phase == (FrontToBackIndex(ld.zone) * Scale) \div 6
        within_zone == (ld.zone_index * Scale) \div Max(1, ld.zone_count)
        wave_pos == Mod1(Mul(zone_phase, Pct(50)) + Mul(within_zone, Pct(50)))
        d == Abs(wave_pos - ph)
        dist == IF d > Pct(50) THEN Scale - d ELSE d
    IN  Max(0, Scale - dist * 3)

left_off_intensity(ld) == IF ld.zone = "left" THEN 0 ELSE Scale

right_off_intensity(ld) == IF ld.zone = "right" THEN 0 ELSE Scale

left_right_alt_intensity(ld, phase, bands) ==
    IF ld.zone = "left" THEN (IF phase < Pct(50) THEN Scale ELSE 0)
    ELSE IF ld.zone = "right" THEN (IF phase < Pct(50) THEN 0 ELSE Scale)
    ELSE LET base == IF 2 * ld.zone_index < ld.zone_count
                     THEN (IF phase < Pct(50) THEN Scale ELSE 0)
                     ELSE (IF phase >= Pct(50) THEN Scale ELSE 0)
         IN  IF bands # None THEN Mul(base, Pct(40) + Mul(Pct(60), bands.overall))
             ELSE base

\* _center_out_intensity with a fault seeded: min_radius is 0
CenterOutFromPoint(ld, phase, bands) ==
    IF ld.zone_count <= 0 THEN 0
    ELSE LET center == ((ld.zone_count - 1) * Scale) \div 2
             dist_from_center == Abs(ld.zone_index * Scale - center)
             max_radius == center + Pct(50)
             min_radius == 0
             ph == IF bands # None
                   THEN Mod1(Mul(phase, Pct(70)) + Mul(Pct(30), bands.upper_bass))
                   ELSE phase
             lit_radius == min_radius + Mul(ph, max_radius - min_radius)
         IN  IF dist_from_center <= lit_radius
             THEN Max(0, Scale - Mul(Div(dist_from_center, Max(lit_radius, Pct(1))), Pct(30)))
             ELSE 0

center_out_intensity(ld, phase, bands) ==
    IF ld.zone_count <= 0 THEN 0
    ELSE LET center == ((ld.zone_count - 1) * Scale) \div 2
             dist_from_center == Abs(ld.zone_index * Scale - center)
             max_radius == center + Pct(50)
             min_radius == Pct(50)
             ph == IF bands # None
                   THEN Mod1(Mul(phase, Pct(70)) + Mul(Pct(30), bands.upper_bass))
                   ELSE phase
             lit_radius == min_radius + Mul(ph, max_radius - min_radius)
         IN  IF dist_from_center <= lit_radius
             THEN Max(0, Scale - Mul(Div(dist_from_center, Max(lit_radius, Pct(1))), Pct(30)))
             ELSE 0

swirl_intensity(n, ld, phase, tail_len, bands) ==
    IF n = 0 THEN 0
    ELSE LET ph == IF bands # None
                   THEN Mod1(Mul(phase, Pct(70) + Mul(Pct(60), bands.upper_bass)))
                   ELSE phase
             head_pos == ph * n
             dist == (ld.global_index * Scale - head_pos + n * Scale) % (n * Scale)
         IN  IF dist <= tail_len * Scale THEN Scale - (dist \div (tail_len + 1)) ELSE 0

\* math.sin(x) for x = u * pi, u a fixed-point number >= 0: Bhaskara's rational
\* approximation 16 v (1 - v) / (5 - 4 v (1 - v)) on each half period
SinPi(u) ==
    LET w == u % (2 * Scale)
        v == IF w < Scale THEN w ELSE w - Scale
        x == Mul(v, Scale - v)
        s == Div(16 * x, 5 * Scale - 4 * x)
    IN  IF w < Scale THEN s ELSE 0 - s

\* _breathing_state with a fault seeded: the sine is not halved, the swing is
\* twice as wide
BreathingStateFullSwing(base_color, t) ==
    LET breath == Pct(40) + Mul(Pct(60), Pct(50) + SinPi(Mul(t, Pct(70))))
        hue_shift == Mod1(Mul(t, Pct(12)))
        base_hue == rgb_to_hue(base_color[1], base_color[2], base_color[3])
        hue == Mod1(base_hue + hue_shift)
    IN  <<hue_to_rgb(hue, Pct(85), Pct(90)), breath>>

\* _breathing_state with breath_rate = 0.35, t its clock read: <<color, breath>>
breathing_state(base_color, t) ==
    LET breath == Pct(40) + Mul(Pct(60), Pct(50) + Mul(Pct(50), SinPi(Mul(t, Pct(70)))))
        hue_shift == Mod1(Mul(t, Pct(12)))
        base_hue == rgb_to_hue(base_color[1], base_color[2], base_color[3])
        hue == Mod1(base_hue + hue_shift)
    IN  <<hue_to_rgb(hue, Pct(85), Pct(90)), breath>>

\* math.radians: an angle in degrees as a multiple of pi (2 * Scale is 2 pi)
Radians(angle_deg) == [pi_times |-> angle_deg \div 180]

\* _rotation_y with a fault seeded: no rotation_enabled test
RotationYAlways(c, bands, t) ==
    LET deg_per_sec == IF c.rotation_audio_boost /\ bands # None
                       THEN Mul(c.rotation_speed, Pct(70) + Mul(Pct(60), bands.low))
                       ELSE c.rotation_speed
    IN  Radians(MulDiv(t, deg_per_sec, Scale) % (360 * Scale))

\* _rotation_y; t is its clock read, rotation_speed >= 0 in degrees per second
rotation_y_of(c, bands, t) ==
    IF ~c.rotation_enabled THEN None
    ELSE LET deg_per_sec == IF c.rotation_audio_boost /\ bands # None
                            THEN Mul(c.rotation_speed, Pct(70) + Mul(Pct(60), bands.low))
                            ELSE c.rotation_speed
         IN  Radians(MulDiv(t, deg_per_sec, Scale) % (360 * Scale))

\* zone_set.get(ld.zone.value, "bass_flood")
ZoneSetGet(zone_set, zone) ==
    IF zone \in DOMAIN zone_set THEN zone_set[zone] ELSE "bass_flood"

\* the resolution with a fault seeded: no except clause, Pattern(...) raises
\* ValueError
ResolvePatternNoExcept(pattern, zone_set, ld) ==
    IF pattern # "zone_mix" THEN pattern
    ELSE LET zone_pattern_str == ZoneSetGet(zone_set, ld.zone)
         IN  IF zone_pattern_str \in Pattern THEN zone_pattern_str ELSE "ValueError"

\* the effective pattern p of one fixture
ResolvePattern(pattern, zone_set, ld) ==
    IF pattern # "zone_mix" THEN pattern
    ELSE LET zone_pattern_str == ZoneSetGet(zone_set, ld.zone)
         IN  IF zone_pattern_str \in Pattern THEN zone_pattern_str ELSE "bass_flood"

no_bass_boost ==
    {"left_off", "right_off", "left_right_alt", "center_out", "upper_bass",
     "bass_flood", "band_split", "beat_hue"}

\* the bass boost with a fault seeded: applied whatever the pattern
BassBoostAlways(p, bands, intensity) ==
    IF bands # None
    THEN Min(Scale, Mul(intensity, Pct(70) + Mul(Pct(30), bands.low)))
    ELSE intensity

\* the bass boost closing one pass of the loop over the fixtures
BassBoost(p, bands, intensity) ==
    IF bands # None /\ p \notin no_bass_boost
    THEN Min(Scale, Mul(intensity, Pct(70) + Mul(Pct(30), bands.low)))
    ELSE intensity

\* The branch of the if/elif chain taken for effective pattern p: the
\* intensity, the colour, the beat detector state it leaves and whether a
\* beat was detected.  fr holds the
\* quantities compute() fixes before the loop, color is the fixture's default
\* colour, off its light_hue_offset.
PatternRule(fr, e, ld, p, color, off) ==
    LET bands == fr.bands
        same(i) == [intensity |-> i, color |-> color, eng |-> e, beat |-> FALSE]
    IN  CASE p = "chase" -> same(chase_intensity(fr.n, ld, fr.phase, fr.chase_tail, FALSE))
          [] p = "chase_reverse" ->
                same(chase_intensity(fr.n, ld, fr.phase, fr.chase_tail, TRUE))
          [] p = "front_to_back" -> same(front_to_back_intensity(ld, fr.phase, FALSE))
          [] p = "back_to_front" -> same(front_to_back_intensity(ld, fr.phase, TRUE))
          [] p = "left_off" -> same(left_off_intensity(ld))
          [] p = "right_off" -> same(right_off_intensity(ld))
          [] p = "left_right_alt" -> same(left_right_alt_intensity(ld, fr.phase, bands))
          [] p = "center_out" -> same(center_out_intensity(ld, fr.phase, bands))
          [] p = "swirl" -> same(swirl_intensity(fr.n, ld, fr.phase, fr.chase_tail, bands))
          [] p = "upper_bass" ->
                same(Pct(30) + Mul(Pct(70), IF bands # None THEN bands.upper_bass ELSE Pct(50)))
          [] p = "bass_flood" ->
                same(Pct(20) + Mul(Pct(80), IF bands # None THEN bands.low ELSE Pct(50)))
          [] p = "treble_hue" ->
                LET hue == IF bands # None THEN bands_to_hue(bands) ELSE fr.time_hue
                IN  [intensity |-> Pct(50) + Mul(Pct(50), IF bands # None THEN bands.overall
                                                          ELSE Pct(50)),
                     color |-> energy_to_color(Scale, Mod1(hue + off)),
                     eng |-> e, beat |-> FALSE]
          [] p = "band_split" ->
                LET hue == IF bands # None THEN bands_to_hue(bands) ELSE fr.time_hue
                IN  [intensity |-> Pct(30) + Mul(Pct(70), IF bands # None THEN bands.low
                                                          ELSE Pct(50)),
                     color |-> energy_to_color(Pct(80), Mod1(hue + off)),
                     eng |-> e, beat |-> FALSE]
          [] p = "music_color" ->
                same(Pct(50) + Mul(Pct(50), IF bands # None THEN bands.overall ELSE Pct(50)))
          [] p = "all_on" -> same(Scale)
          [] p = "beat_hue" ->
                LET d == detect_beat(e, bands, fr.tBeat)
                    beat_hue == IF d.beat THEN Mod1(e.beat_hue + Pct(20)) ELSE e.beat_hue
                    hue == Mod1(beat_hue + Mul(off, Pct(50)))
                IN  [intensity |-> Pct(30) + Mul(Pct(70), IF bands # None THEN bands.low
                                                          ELSE Pct(50)),
                     color |-> energy_to_color(Pct(90), hue),
                     eng |-> [d.eng EXCEPT !.beat_hue = beat_hue], beat |-> d.beat]
          [] OTHER -> same(0)

\* the loop body with a fault seeded: with bands absent the colour energy is
\* the baseline 0.5 of the intensity rules, not 0.6
FixtureStepBaselineColor(fr, e, ld) ==
    LET off == Mul((ld.global_index * Scale) \div Max(fr.n, 1), Pct(20))
        base_hue_adj == Mod1(fr.base_hue + off)
        color == energy_to_color(IF fr.bands # None THEN fr.bands.mid ELSE Pct(50),
                                 base_hue_adj)
        p == ResolvePattern(fr.pattern, fr.zone_set, ld)
        rule == PatternRule(fr, e, ld, p, color, off)
        intensity == BassBoost(p, fr.bands, rule.intensity)
    IN  [state |-> LightState(rule.color[1], rule.color[2], rule.color[3],
                              intensity, fr.rotation_y),
         eng |-> rule.eng,
         beat |-> rule.beat,
         p |-> p,
         rule_intensity |-> rule.intensity]

\* the loop body with a fault seeded: the beat detector runs for every
\* fixture, whatever its effective pattern
FixtureStepAlwaysDetects(fr, e, ld) ==
    LET off == Mul((ld.global_index * Scale) \div Max(fr.n, 1), Pct(20))
        base_hue_adj == Mod1(fr.base_hue + off)
        color == energy_to_color(IF fr.bands # None THEN fr.bands.mid ELSE Pct(60),
                                 base_hue_adj)
        p == ResolvePattern(fr.pattern, fr.zone_set, ld)
        rule == PatternRule(fr, e, ld, p, color, off)
        intensity == BassBoost(p, fr.bands, rule.intensity)
    IN  [state |-> LightState(rule.color[1], rule.color[2], rule.color[3],
                              intensity, fr.rotation_y),
         eng |-> detect_beat(rule.eng, fr.bands, fr.tBeat).eng,
         beat |-> rule.beat,
         p |-> p,
         rule_intensity |-> rule.intensity]

\* one pass of the loop over the fixtures: the LightState appended and the
\* beat detector state after it
FixtureStep(fr, e, ld) ==
    LET off == Mul((ld.global_index * Scale) \div Max(fr.n, 1), Pct(20))
        base_hue_adj == Mod1(fr.base_hue + off)
        color == energy_to_color(IF fr.bands # None THEN fr.bands.mid ELSE Pct(60),
                                 base_hue_adj)
        p == ResolvePattern(fr.pattern, fr.zone_set, ld)
        rule == PatternRule(fr, e, ld, p, color, off)
        intensity == BassBoost(p, fr.bands, rule.intensity)
    IN  [state |-> LightState(rule.color[1], rule.color[2], rule.color[3],
                              intensity, fr.rotation_y),
         eng |-> rule.eng,
         beat |-> rule.beat,
         p |-> p,
         rule_intensity |-> rule.intensity]

\* the loop over iter_lights() from its k-th descriptor on
RECURSIVE ComputeLoop(_, _, _, _)
ComputeLoop(fr, e, lds, k) ==
    IF k > Len(lds) THEN [states |-> <<>>, eng |-> e, ps |-> <<>>, rules |-> <<>>, beats |-> 0]
    ELSE LET step == FixtureStep(fr, e, lds[k])
             rest == ComputeLoop(fr, step.eng, lds, k + 1)
         IN  [states |-> <<step.state>> \o rest.states,
              eng |-> rest.eng,
              ps |-> <<step.p>> \o rest.ps,
              rules |-> <<step.rule_intensity>> \o rest.rules,
              beats |-> rest.beats + (IF step.beat THEN 1 ELSE 0)]

\* The clock reads of one compute() call, in the order the code makes them:
\* _phase, the t of time_hue, _rotation_y, _breathing_state, the t of the
\* zone_mix set, _detect_beat.  Every _detect_beat call of one frame after the
\* first finds rise = 0 and leaves the state alone, so one read stands for all.
ClockReads(t, k) ==
    [phase |-> t,
     hue |-> IF k <= 1 THEN t + 1 ELSE t,
     rot |-> IF k <= 2 THEN t + 1 ELSE t,
     breath |-> IF k <= 3 THEN t + 1 ELSE t,
     zone |-> IF k <= 3 THEN t + 1 ELSE t,
     beat |-> IF k <= 4 THEN t + 1 ELSE t]

\* set_idx with a fault seeded: t / zone_cycle_seconds rounded, not truncated
ZoneSetIndexRounded(c, t) ==
    ((t + c.zone_cycle_seconds \div 2) \div c.zone_cycle_seconds) % Max(1, Len(c.zone_mix_sets))

\* set_idx of the ZONE_MIX branch, t its clock read
ZoneSetIndex(c, t) ==
    (t \div c.zone_cycle_seconds) % Max(1, Len(c.zone_mix_sets))

\* compute(pattern, bands) on an engine with layout lay, constructor arguments
\* c and beat detector state e, the clock reading rd: the list returned, the
\* state left, per fixture the effective pattern and the rule's intensity
\* before the bass boost, and the number of beats detected
compute(lay, c, e, pattern, bands, rd) ==
    LET n == total_lights(lay)
        phase == phase_of(rd.phase)
        time_hue == Mod1(Mul(rd.hue, Pct(8)))
        base_hue == IF bands # None
                    THEN Mod1(Mul(bands_to_hue(bands), Pct(60)) + Mul(time_hue, Pct(40)))
                    ELSE time_hue
        music_color == energy_to_color(IF bands # None THEN bands.mid ELSE Pct(60), base_hue)
        rotation_y == rotation_y_of(c, bands, rd.rot)
        set_idx == ZoneSetIndex(c, rd.zone)
        zone_set == IF pattern = "zone_mix" THEN c.zone_mix_sets[set_idx + 1] ELSE None
        fr == [n |-> n, chase_tail |-> c.chase_tail, pattern |-> pattern, bands |-> bands,
               phase |-> phase, time_hue |-> time_hue, base_hue |-> base_hue,
               rotation_y |-> rotation_y, zone_set |-> zone_set, tBeat |-> rd.beat]
        lds == iter_lights(lay)
    IN  IF n = 0 THEN [states |-> <<>>, eng |-> e, ps |-> <<>>, rules |-> <<>>, beats |-> 0]
        ELSE IF pattern = "breathing"
        THEN LET bs == breathing_state(music_color, rd.breath)
             IN  [states |-> [i \in 1..Len(lds) |->
                                 LightState(bs[1][1], bs[1][2], bs[1][3], bs[2], rotation_y)],
                  eng |-> e,
                  ps |-> [i \in 1..Len(lds) |-> "breathing"],
                  rules |-> [i \in 1..Len(lds) |-> bs[2]],
                  beats |-> 0]
        ELSE ComputeLoop(fr, e, lds, 1)

(***************************************************************************)
(* The engine called by its driver (main.py, run): one compute() per frame. *)
(***************************************************************************)
\* the layout of the example configuration: 19 lights, no bottom zone
Layout19 == LightLayout(5, 5, 3, 2, 4, 0)

\* ten lights, every zone populated, the front zone with an odd count
Layout10 == LightLayout(1, 1, 3, 2, 2, 1)

NoLights == LightLayout(0, 0, 0, 0, 0, 0)

\* two lights in one zone: fewer lights than the chase tail is long
Layout2 == LightLayout(0, 0, 0, 0, 2, 0)

EngineLayouts == {NoLights, Layout2, Layout10, Layout19}

\* zone_mix_sets of a configuration: an unknown name (left, back, top of one
\* set or the other), a zone with no entry (bottom), and beat_hue, breathing
\* and zone_mix named as sub-patterns
CustomZoneMixSets ==
    << [left |-> "strobe", right |-> "beat_hue", front |-> "all_on", back |-> "",
        top |-> "treble_hue"],
       [left |-> "breathing", right |-> "zone_mix", front |-> "band_split",
        back |-> "upper_bass", top |-> "Chase", bottom |-> "front_to_back"] >>

MaxTail == 3

\* constructor arguments: the defaults but for a tail of 0 lights; rotation at
\* 30 degrees per second with the audio boost, the custom sets cycling every
\* half second; rotation without the boost, the default sets
Configs ==
    {PatternEngine(0, FALSE, 30 * Scale, TRUE, <<>>, 14 * Scale),
     PatternEngine(MaxTail, TRUE, 30 * Scale, TRUE, CustomZoneMixSets, Scale \div 2),
     PatternEngine(MaxTail, TRUE, 30 * Scale, FALSE, <<>>, 14 * Scale)}

\* band energies as compute() may be given them: every field within [0, 1]
BandSets ==
    {FrequencyBands(0, 0, 0, 0, 0),
     FrequencyBands(Scale, Scale, Scale, Scale, Scale),
     FrequencyBands(Pct(50), Pct(40), Pct(30), Pct(20), Pct(35))}

\* Clock readings of a frame: the instants k/19 s and k/10 s, at which the
\* chase head stands exactly on fixture k of 19 or of 10 lights, and instants
\* past one period of the phase, of the zone_mix cycle and of the rotation.
MaxHead == 18
Times ==
    {(k * Scale) \div 19 : k \in 0..MaxHead}
    \cup {(k * Scale) \div 10 : k \in 1..9}
    \cup {Pct(15), Scale + Pct(55), 14 * Scale, 29 * Scale + 7}

Init ==
    /\ layout \in EngineLayouts
    /\ cfg \in Configs
    /\ eng = FreshEngine
    /\ now = 0
    /\ call = None
    /\ states = <<>>
    /\ log = <<>>
    /\ lights = <<>>
    /\ spectrum = None
    /\ raw = <<>>
    /\ norm = None
    /\ link = None
    /\ probe = None
    /\ source = None

\* compute(pattern, bands) called when the clock reads t, the later reads of
\* the call one tick on from the k-th: the list returned, the beat detector
\* state left, and the record of the call
ComputeCall(pattern, bands, t, k) ==
    /\ t >= now
    /\ \E res \in {compute(layout, cfg, eng, pattern, bands, ClockReads(t, k))} :
           /\ states' = res.states
           /\ eng' = res.eng
           /\ now' = ClockReads(t, k).beat
           /\ call' = [pattern |-> pattern, bands |-> bands, t |-> t,
                       rd |-> ClockReads(t, k), pre |-> eng, ps |-> res.ps,
                       rules |-> res.rules, beats |-> res.beats]

\* the first frame of a run, at whatever instant the setup is over
FirstFrame ==
    /\ call = None
    /\ \E pattern \in Pattern, bands \in BandSets \cup {None}, t \in Times, k \in 1..5 :
           ComputeCall(pattern, bands, t, k)
    /\ UNCHANGED <<layout, cfg, log, lights, spectrum, raw, norm, link, probe, source>>

Next == FirstFrame

Spec == Init /\ [][Next]_vars

(***************************************************************************)
(* Properties of one compute() call.                                       *)
(***************************************************************************)
Called == call # None

HasBands == call.bands # None

\* the zone of the i-th light of a layout, from the zone counts alone
ZoneAt(lay, i) ==
    IF i <= lay.left THEN "left"
    ELSE IF i <= lay.left + lay.right THEN "right"
    ELSE IF i <= lay.left + lay.right + lay.front THEN "front"
    ELSE IF i <= lay.left + lay.right + lay.front + lay.back THEN "back"
    ELSE IF i <= lay.left + lay.right + lay.front + lay.back + lay.top THEN "top"
    ELSE "bottom"

InUnit(x) == 0 <= x /\ x <= Scale

\* C1: compute returns exactly total_lights() LightStates for every pattern
\* and layout, bands present or absent, the i-th being the state of the i-th
\* fixture of iter_lights(): under left_off and right_off, which tell the
\* zones apart, the dark entries are exactly those of the zone switched off.
ComputeOneStatePerFixture ==
    Called =>
        /\ Len(states) = layout.left + layout.right + layout.front
                             + layout.back + layout.top + layout.bottom
        /\ call.pattern = "left_off" =>
               \A i \in 1..Len(states) :
                   (states[i].intensity = 0) <=> (ZoneAt(layout, i) = "left")
        /\ call.pattern = "right_off" =>
               \A i \in 1..Len(states) :
                   (states[i].intensity = 0) <=> (ZoneAt(layout, i) = "right")

\* a left_off frame on the layout with every zone populated
ComputeOneStatePerFixtureWitness ==
    /\ Called
    /\ call.pattern = "left_off"
    /\ layout = Layout10
    /\ Len(states) = 10
    /\ states[1].intensity = 0
    /\ states[10].intensity > 0

\* C3: every LightState compute returns has r, g, b and intensity in [0, 1]
LightStateInRange ==
    Called =>
        \A i \in 1..Len(states) :
            /\ InUnit(states[i].r)
            /\ InUnit(states[i].g)
            /\ InUnit(states[i].b)
            /\ InUnit(states[i].intensity)

\* a frame with full band energies whose boost is clamped at 1.0 on 19 lights
LightStateInRangeWitness ==
    /\ Called
    /\ HasBands
    /\ call.pattern = "upper_bass"
    /\ Len(states) = 19
    /\ \E i \in 1..Len(states) : states[i].intensity = Scale /\ states[i].r = Scale
    /\ \E i \in 1..Len(states) : states[i].g < Scale \/ states[i].b < Scale

\* the zone_mix set in force at the clock reading of the call
SetInForce ==
    cfg.zone_mix_sets[((call.rd.zone \div cfg.zone_cycle_seconds)
                           % Len(cfg.zone_mix_sets)) + 1]

\* the i-th fixture's zone has no entry in the set, or one that names no pattern
Unresolvable(i) ==
    \/ ZoneAt(layout, i) \notin DOMAIN SetInForce
    \/ SetInForce[ZoneAt(layout, i)] \notin Pattern

\* what bass_flood, selected for the whole frame, returns for the same call
BassFloodFrame == compute(layout, cfg, call.pre, "bass_flood", call.bands, call.rd).states

\* C7: in zone_mix a fixture whose zone is mapped to a string that is no
\* pattern name, or has no entry in the current set, gets exactly the
\* bass_flood result of the frame: intensity 0.2 + 0.8 * low, or 0.6 with
\* bands absent, without the bass boost; the resolution ends in a pattern.
ZoneMixUnknownIsBassFlood ==
    (Called /\ call.pattern = "zone_mix") =>
        \A i \in 1..Len(states) :
            Unresolvable(i) =>
                /\ call.ps[i] = "bass_flood"
                /\ states[i] = BassFloodFrame[i]
                /\ states[i].intensity =
                       IF HasBands THEN Pct(20) + Mul(Pct(80), call.bands.low)
                       ELSE Pct(60)

\* a zone_mix frame with bands on ten lights, the set in force mapping left to
\* "strobe" and having no entry for bottom
ZoneMixUnknownIsBassFloodWitness ==
    /\ Called
    /\ call.pattern = "zone_mix"
    /\ HasBands
    /\ call.bands.low = Pct(50)
    /\ layout = Layout10
    /\ Unresolvable(1)
    /\ SetInForce["left"] = "strobe"
    /\ Unresolvable(10)
    /\ "bottom" \notin DOMAIN SetInForce
    /\ states[1].intensity = Pct(60)
    /\ ~Unresolvable(2)

\* the factor 0.7 + 0.3 * low of the bass boost
BoostFactor == Pct(70) + Mul(Pct(30), call.bands.low)

\* C8 as stated: with bands present every fixture whose effective pattern is
\* none of the eight exempt ones has the intensity
\* min(1, rule_intensity * (0.7 + 0.3 * low)), the others the rule intensity.
BassBoostAllButEight ==
    (Called /\ HasBands) =>
        \A i \in 1..Len(states) :
            states[i].intensity =
                IF call.ps[i] \in {"left_off", "right_off", "left_right_alt", "center_out",
                                   "upper_bass", "bass_flood", "band_split", "beat_hue"}
                THEN call.rules[i]
                ELSE Min(Scale, Mul(call.rules[i], BoostFactor))

\* C8 amended: breathing, selected for the frame, is exempt as well.
BassBoostAllButEightAndBreathing ==
    (Called /\ HasBands) =>
        \A i \in 1..Len(states) :
            states[i].intensity =
                IF \/ call.ps[i] \in {"left_off", "right_off", "left_right_alt",
                                      "center_out", "upper_bass", "bass_flood",
                                      "band_split", "beat_hue"}
                   \/ call.pattern = "breathing"
                THEN call.rules[i]
                ELSE Min(Scale, Mul(call.rules[i], BoostFactor))

\* an all_on frame dimmed to 0.85 by low = 0.5, and in the same way a zone_mix
\* frame with a boosted and an exempt fixture
BassBoostWitness ==
    /\ Called
    /\ HasBands
    /\ call.bands.low = Pct(50)
    /\ call.pattern = "zone_mix"
    /\ layout = Layout10
    /\ \E i \in 1..Len(states) :
           /\ call.ps[i] = "all_on"
           /\ call.rules[i] = Scale
           /\ states[i].intensity = Pct(85)
    /\ \E i \in 1..Len(states) :
           /\ call.ps[i] = "beat_hue"
           /\ states[i].intensity = call.rules[i]
           /\ states[i].intensity = Pct(65)

\* the degrees per second of the rotation policy for the call
DegPerSec ==
    IF cfg.rotation_audio_boost /\ HasBands
    THEN Mul(cfg.rotation_speed, Pct(70) + Mul(Pct(60), call.bands.low))
    ELSE cfg.rotation_speed

\* C9: with rotation disabled every LightState has rotation_y = None; enabled,
\* every LightState of the frame carries the same absolute angle in
\* [0, 2 pi), (elapsed * degrees_per_second) mod 360 in radians, the speed
\* scaled by 0.7 + 0.6 * low only with rotation_audio_boost and bands.
RotationPolicy ==
    Called =>
        \A i \in 1..Len(states) :
            IF ~cfg.rotation_enabled THEN states[i].rotation_y = None
            ELSE /\ states[i].rotation_y # None
                 /\ states[i].rotation_y.pi_times >= 0
                 /\ states[i].rotation_y.pi_times < 2 * Scale
                 /\ states[i].rotation_y.pi_times =
                        (MulDiv(call.rd.rot, DegPerSec, Scale) % (360 * Scale)) \div 180

\* 14 s at 30 deg/s with low = 1 (speed * 1.3) is 546 = 186 degrees mod 360
RotationPolicyWitness ==
    /\ Called
    /\ cfg.rotation_enabled
    /\ cfg.rotation_audio_boost
    /\ HasBands
    /\ call.bands.low = Scale
    /\ call.rd.rot = 14 * Scale
    /\ Len(states) = 19
    /\ states[19].rotation_y.pi_times = (186 * Scale) \div 180

\* the head of the chase stands exactly on a fixture
HeadExact == (phase_of(call.rd.phase) * Len(states)) % Scale = 0

HeadIndex == (phase_of(call.rd.phase) * Len(states)) \div Scale

\* C10: chase with bands absent, the head exactly on fixture k: fixture k has
\* intensity 1.0, a fixture at circular distance d <= tail from the head (d
\* counted from the head towards higher indices, wrapping) has 1 - d/(tail+1),
\* every other fixture 0.
ChaseAtExactHead ==
    (Called /\ call.pattern = "chase" /\ ~HasBands /\ Len(states) >= 1 /\ HeadExact) =>
        /\ states[HeadIndex + 1].intensity = Scale
        /\ \A i \in 1..Len(states) :
               LET d == ((i - 1) - HeadIndex) % Len(states)
               IN  states[i].intensity =
                       IF d <= cfg.chase_tail
                       THEN Scale - ((d * Scale) \div (cfg.chase_tail + 1))
                       ELSE 0

\* tail = 3, N = 19, the head on fixture 17: the tail wraps to fixture 1
ChaseAtExactHeadWitness ==
    /\ Called
    /\ call.pattern = "chase"
    /\ ~HasBands
    /\ cfg.chase_tail = 3
    /\ Len(states) = 19
    /\ HeadExact
    /\ HeadIndex = 17
    /\ states[18].intensity = Scale
    /\ states[19].intensity = Pct(75)
    /\ states[1].intensity = Pct(50)
    /\ states[2].intensity = Pct(25)
    /\ states[3].intensity = 0
    /\ states[17].intensity = 0

(***************************************************************************)
(* The layout model on its own: iter_lights() run, and run again.          *)
(***************************************************************************)
MaxCount == 2
MaxPasses == 2

InitLayout ==
    /\ layout \in {LightLayout(l, r, f, b, t, bo) :
                       l \in 0..MaxCount, r \in 0..MaxCount, f \in 0..MaxCount,
                       b \in 0..MaxCount, t \in 0..MaxCount, bo \in 0..MaxCount}
                  \cup {Layout19}
    /\ cfg = PatternEngine(3, FALSE, 30 * Scale, TRUE, <<>>, 14 * Scale)
    /\ eng = FreshEngine
    /\ now = 0
    /\ call = None
    /\ states = <<>>
    /\ log = <<>>
    /\ lights = <<>>
    /\ spectrum = None
    /\ raw = <<>>
    /\ norm = None
    /\ link = None
    /\ probe = None
    /\ source = None

\* one complete pass over iter_lights(), as list(layout.iter_lights())
Iterate ==
    /\ Len(lights) < MaxPasses
    /\ lights' = Append(lights, iter_lights(layout))
    /\ UNCHANGED <<layout, cfg, eng, now, call, states, log, spectrum, raw, norm, link, probe, source>>

NextLayout == Iterate

SpecLayout == InitLayout /\ [][NextLayout]_vars

\* the number of lights in the zones before zone z
ZoneStart(lay, z) ==
    CASE z = "left" -> 0
      [] z = "right" -> lay.left
      [] z = "front" -> lay.left + lay.right
      [] z = "back" -> lay.left + lay.right + lay.front
      [] z = "top" -> lay.left + lay.right + lay.front + lay.back
      [] z = "bottom" -> lay.left + lay.right + lay.front + lay.back + lay.top

\* C2: iter_lights yields exactly the sum of the six counts descriptors,
\* global_index 0, 1, 2, ..., the zones in the order left, right, front, back,
\* top, bottom, zone_index running from 0 in each zone, and the same sequence
\* on every pass; 5/5/3/2/4/0 gives left 0-4, right 5-9, front 10-12, back
\* 13-14, top 15-18.
IterLightsOrder ==
    \A n \in 1..Len(lights) :
        /\ Len(lights[n]) = layout.left + layout.right + layout.front
                                + layout.back + layout.top + layout.bottom
        /\ \A i \in 1..Len(lights[n]) :
               /\ lights[n][i].global_index = i - 1
               /\ lights[n][i].zone = ZoneAt(layout, i)
               /\ lights[n][i].zone_index = i - 1 - ZoneStart(layout, ZoneAt(layout, i))
               /\ lights[n][i].zone_count = layout[ZoneAt(layout, i)]
               /\ lights[n][i].zone_index < lights[n][i].zone_count
        /\ lights[n] = lights[1]
        /\ layout = Layout19 =>
               /\ Len(lights[n]) = 19
               /\ \A i \in 1..19 :
                      lights[n][i].zone =
                          IF i - 1 <= 4 THEN "left" ELSE IF i - 1 <= 9 THEN "right"
                          ELSE IF i - 1 <= 12 THEN "front"
                          ELSE IF i - 1 <= 14 THEN "back" ELSE "top"

\* the second pass over a layout with a zone of no lights between populated ones
IterLightsOrderWitness ==
    /\ Len(lights) = 2
    /\ layout = LightLayout(2, 0, 1, 0, 0, 2)
    /\ Len(lights[2]) = 5
    /\ lights[2][3] = LightDescriptor(2, "front", 0, 1)
    /\ lights[2][5] = LightDescriptor(4, "bottom", 1, 2)

(***************************************************************************)
(* The band extractor on its own: the spectrum of one window analysed.     *)
(***************************************************************************)
\* magnitudes in units of 1e-7: 0 .. MaxSmallMag, 1.0 and 2.5
MaxSmallMag == 5
Magnitudes == (0..MaxSmallMag) \cup {10000000, 25000000}

\* fft_size = 8 gives the five bins of rfft; the sample rates put the bands on
\* different bins, 2000 Hz leaving the high band without any
InitBands ==
    /\ spectrum \in [mags : [1..5 -> Magnitudes], sample_rate : {2000, 8000, 44100},
                     fft_size : {8}]
    /\ layout = NoLights
    /\ cfg = PatternEngine(3, FALSE, 30 * Scale, TRUE, <<>>, 14 * Scale)
    /\ eng = FreshEngine
    /\ now = 0
    /\ call = None
    /\ states = <<>>
    /\ log = <<>>
    /\ lights = <<>>
    /\ raw = <<>>
    /\ norm = None
    /\ link = None
    /\ probe = None
    /\ source = None

\* fft_frequency_bands from the magnitudes on
Analyze ==
    /\ norm = None
    /\ raw' = RawEnergies(spectrum.mags, spectrum.sample_rate, spectrum.fft_size)
    /\ norm' = Normalize(raw')
    /\ UNCHANGED <<layout, cfg, eng, now, call, states, log, lights, spectrum, link, probe, source>>

NextBands == Analyze

SpecBands == InitBands /\ [][NextBands]_vars

\* C4: for any five non-negative raw energies the normalisation divides by
\* max(1e-6, 2 * max(raw)), never by zero, every field of the result lies in
\* [0, 1], and every field is exactly 0 when all raw energies are 0.
NormalizedInRange ==
    norm # None =>
        /\ DOMAIN norm = {"low", "upper_bass", "mid", "high", "overall"}
        /\ NormDivisor(raw) >= RawEps
        /\ \A f \in DOMAIN norm : InUnit(norm[f])
        /\ (\A j \in 1..5 : raw[j] = 0) => \A f \in DOMAIN norm : norm[f] = 0

\* a silent window, as of an empty or zero-padded buffer, analysed
NormalizedInRangeWitness ==
    /\ norm # None
    /\ \A j \in 1..5 : spectrum.mags[j] = 0
    /\ raw = <<0, 0, 0, 0, 0>>
    /\ norm = FrequencyBands(0, 0, 0, 0, 0)

(***************************************************************************)
(* The beat detector over the frames of a run.                             *)
(***************************************************************************)
\* layouts of a run with beat_hue: two lights in one zone, and three lights of
\* which the two on the right are beat_hue in the first custom zone_mix set
Layout3 == LightLayout(1, 2, 0, 0, 0, 0)

RunLayouts == {Layout2, Layout3}

\* the default sets, and the custom sets with beat_hue in one zone
RunConfigs == {c \in Configs : c.rotation_audio_boost}

InitRun ==
    /\ layout \in RunLayouts
    /\ cfg \in RunConfigs
    /\ eng = FreshEngine
    /\ now = 0
    /\ call = None
    /\ states = <<>>
    /\ log = <<>>
    /\ lights = <<>>
    /\ spectrum = None
    /\ raw = <<>>
    /\ norm = None
    /\ link = None
    /\ probe = None
    /\ source = None

\* the bass (upper_bass) and the clock reading of the five frames of the script
BassScript == <<Pct(10), Pct(10), Pct(40), Pct(10), Pct(45)>>
TimeScript == <<0, Pct(5), Pct(10), Pct(12), Pct(20)>>

\* the next frame of the script in beat_hue, the other bands at either level
ScriptFrame ==
    /\ Len(log) < Len(BassScript)
    /\ \E low \in {BassScript[Len(log) + 1], Pct(50)}, k \in 1..5 :
           ComputeCall("beat_hue",
                       FrequencyBands(low, BassScript[Len(log) + 1], Pct(30), Pct(20), low),
                       TimeScript[Len(log) + 1], k)
    /\ log' = Append(log, [t |-> call'.t, bass |-> call'.bands.upper_bass,
                           beat |-> call'.beats > 0])
    /\ UNCHANGED <<layout, cfg, lights, spectrum, raw, norm, link, probe, source>>

NextScript == ScriptFrame

SpecScript == InitRun /\ [][NextScript]_vars

\* C5 as stated: on a fresh engine in beat_hue, bass 0.1, 0.1, 0.4, 0.1, 0.45
\* at 0, 0.05, 0.10, 0.12, 0.20 s: a beat fires at 0.10 s, none at 0.12 s, and
\* one at 0.20 s only if 0.15 s have passed since the beat at 0.10 s.
ScriptBeats ==
    /\ Len(log) >= 3 => log[3].beat
    /\ Len(log) >= 4 => ~log[4].beat
    /\ (Len(log) >= 5 /\ log[5].beat) => log[5].t - log[3].t >= Pct(15)

\* what the code does on the script: the one beat is that of the fifth frame
ScriptBeatsOfCode ==
    \A i \in 1..Len(log) : log[i].beat <=> i = 5

\* the script run to its end
ScriptBeatsWitness ==
    /\ Len(log) = 5
    /\ log[3].bass = Pct(40)
    /\ log[3].t = Pct(10)
    /\ ~log[3].beat
    /\ log[5].beat
    /\ eng.beat_hue = Pct(20)

\* a run: frames in beat_hue, zone_mix or all_on, with or without bands, on
\* the instants g * 0.05 s, each at most 0.15 s after the last clock reading;
\* the beat detector reads the clock at that instant or one tick later
MaxRunTime == 6
BassLevels == {Pct(10), Pct(40), Scale}
RunPatterns == {"beat_hue", "zone_mix", "all_on"}
RunBands == {FrequencyBands(Pct(50), u, Pct(30), Pct(20), Pct(35)) : u \in BassLevels}
                \cup {None}

RunFrame ==
    \E t \in {g * Pct(5) : g \in 0..MaxRunTime} :
        /\ now <= t
        /\ t <= now + Pct(15)
        /\ \E pattern \in RunPatterns, bands \in RunBands, k \in {4, 5} :
               ComputeCall(pattern, bands, t, k)
        /\ UNCHANGED <<layout, cfg, log, lights, spectrum, raw, norm, link, probe, source>>

NextRun == RunFrame

SpecRun == InitRun /\ [][NextRun]_vars

\* C6: any two beats are at least 0.15 s apart; a frame on which a beat fires
\* advances the accumulated hue by exactly 0.2 modulo 1, once, and records the
\* instant of the firing as the last beat; a frame on which none fires leaves
\* the hue and the last beat instant unchanged.
BeatCooldownAndHue ==
    Called =>
        /\ call.beats <= 1
        /\ call.beats = 1 =>
               /\ eng.beat_hue = (call.pre.beat_hue + Pct(20)) % Scale
               /\ eng.last_beat_time = call.rd.beat
               /\ call.rd.beat - call.pre.last_beat_time >= Pct(15)
        /\ call.beats = 0 =>
               /\ eng.beat_hue = call.pre.beat_hue
               /\ eng.last_beat_time = call.pre.last_beat_time

\* a second beat, 0.15 s or more after the first, on a call with two beat_hue
\* fixtures
BeatCooldownAndHueWitness ==
    /\ Called
    /\ call.beats = 1
    /\ call.pre.last_beat_time > 0
    /\ call.pre.beat_hue = Pct(20)
    /\ eng.beat_hue = Pct(40)
    /\ Len(states) >= 2
    /\ \A i \in 1..Len(states) : call.ps[i] = "beat_hue"

(***************************************************************************)
(* compute() with bands absent.                                            *)
(***************************************************************************)
\* time_hue of the call: (t * 0.08) % 1.0 at the clock read of line 270
TimeHue == Mod1(Mul(call.rd.hue, Pct(8)))

\* light_hue_offset of the i-th fixture: (global_index / n) * 0.2
HueOffset(i) == Mul(((i - 1) * Scale) \div Max(Len(states), 1), Pct(20))

\* the intensity a band-driven rule gives with the baseline energy 0.5
BaselineIntensity(p) ==
    CASE p \in {"upper_bass", "band_split", "beat_hue"} -> Pct(30) + Mul(Pct(70), Pct(50))
      [] p = "bass_flood" -> Pct(20) + Mul(Pct(80), Pct(50))
      [] p \in {"treble_hue", "music_color"} -> Pct(50) + Mul(Pct(50), Pct(50))

\* C11: with bands absent compute returns a LightState for every fixture
\* whatever the pattern; the band-driven rules use the baseline energy 0.5
\* (upper_bass, band_split, beat_hue 0.3 + 0.7 * 0.5, bass_flood
\* 0.2 + 0.8 * 0.5, treble_hue and music_color 0.5 + 0.5 * 0.5), the colour
\* energy is 0.6, base_hue is time_hue alone, and no bass boost is applied.
AbsentBandsBaseline ==
    (Called /\ ~HasBands) =>
        /\ Len(states) = total_lights(layout)
        /\ \A i \in 1..Len(states) :
               LET p == call.ps[i]
                   rgb == <<states[i].r, states[i].g, states[i].b>>
               IN  /\ p \in {"upper_bass", "bass_flood", "treble_hue", "band_split",
                              "music_color", "beat_hue"} =>
                          states[i].intensity = BaselineIntensity(p)
                   /\ states[i].intensity = call.rules[i]
                   /\ p = "treble_hue" =>
                          rgb = energy_to_color(Scale, Mod1(TimeHue + HueOffset(i)))
                   /\ p = "band_split" =>
                          rgb = energy_to_color(Pct(80), Mod1(TimeHue + HueOffset(i)))
                   /\ call.pattern = "breathing" =>
                          rgb = breathing_state(energy_to_color(Pct(60), TimeHue),
                                                call.rd.breath)[1]
                   /\ (call.pattern # "breathing"
                         /\ p \notin {"treble_hue", "band_split", "beat_hue"}) =>
                          rgb = energy_to_color(Pct(60), Mod1(TimeHue + HueOffset(i)))

\* a zone_mix frame without bands on ten lights: beat_hue on the right,
\* treble_hue on top, the bass_flood default at the bottom
AbsentBandsBaselineWitness ==
    /\ Called
    /\ ~HasBands
    /\ call.pattern = "zone_mix"
    /\ layout = Layout10
    /\ call.ps[2] = "beat_hue"
    /\ states[2].intensity = Pct(65)
    /\ call.ps[8] = "treble_hue"
    /\ states[8].intensity = Pct(75)
    /\ call.ps[10] = "bass_flood"
    /\ states[10].intensity = Pct(60)

(***************************************************************************)
(* resonite_client.py and the frame loop of main.py.                       *)
(*                                                                         *)
(* link.pc is where the loop coroutine stands: "loop" asleep until         *)
(* link.wake, "gather" suspended in update_lights on asyncio.gather.  The  *)
(* _send coroutines take _send_lock in the order gather started them:      *)
(* link.tasks are those that have not sent yet, link.inflight the message  *)
(* whose response _send awaits, link.wire what went out on the socket.     *)
(***************************************************************************)
\* the ids setup_lights made for the light with global_index gi (the random
\* suffix of an id is left out)
SlotId(gi) == [kind |-> "Light", index |-> gi]
CompId(gi) == [kind |-> "Comp", index |-> gi]

\* euler_y_to_quat: (0, sin(half), 0, cos(half)), cos(x) being sin(x + pi/2)
euler_y_to_quat(angle_rad) ==
    LET half == angle_rad.pi_times \div 2
    IN  [x |-> 0, y |-> SinPi(half), z |-> 0, w |-> SinPi(half + Scale \div 2)]

\* the updateComponent message of update_lights
UpdateComponentMsg(comp_id, state) ==
    [type |-> "updateComponent", id |-> comp_id,
     color |-> <<state.r, state.g, state.b, Scale>>,
     intensity |-> Max(0, Min(Scale, state.intensity)) * 2]

\* the updateSlot message of update_lights
UpdateSlotMsg(slot_id, state) ==
    [type |-> "updateSlot", id |-> slot_id, rotation |-> euler_y_to_quat(state.rotation_y)]

\* update_lights with a fault seeded: the rotation message is built whatever
\* rotation_y is, for None with the angle 0
RECURSIVE UpdateLightsAlwaysRotate(_, _, _, _)
UpdateLightsAlwaysRotate(sts, component_ids, slot_ids, i) ==
    IF i > Len(sts) \/ i > Len(component_ids) THEN <<>>
    ELSE <<UpdateComponentMsg(component_ids[i], sts[i])>>
         \o (IF i <= Len(slot_ids)
             THEN <<[type |-> "updateSlot", id |-> slot_ids[i],
                     rotation |-> IF sts[i].rotation_y # None
                                  THEN euler_y_to_quat(sts[i].rotation_y)
                                  ELSE euler_y_to_quat([pi_times |-> 0])]>>
             ELSE <<>>)
         \o UpdateLightsAlwaysRotate(sts, component_ids, slot_ids, i + 1)

\* update_lights: the messages it hands to asyncio.gather, from the i-th
\* state on, in order
RECURSIVE UpdateLightsTasks(_, _, _, _)
UpdateLightsTasks(sts, component_ids, slot_ids, i) ==
    IF i > Len(sts) \/ i > Len(component_ids) THEN <<>>
    ELSE <<UpdateComponentMsg(component_ids[i], sts[i])>>
         \o (IF i <= Len(slot_ids) /\ sts[i].rotation_y # None
             THEN <<UpdateSlotMsg(slot_ids[i], sts[i])>>
             ELSE <<>>)
         \o UpdateLightsTasks(sts, component_ids, slot_ids, i + 1)

\* update_rate of the configuration, frames per second
update_rate == 30

\* interval = 1.0 / update_rate
interval == Scale \div update_rate

\* the timeout of asyncio.wait_for(self._ws.recv(), timeout=5.0)
recv_timeout == 5 * Scale

\* a run gets past setup only with a layout that has lights
DriverLayouts == {Layout2, Layout3}

\* run() builds the engine with the default zone_mix sets
DriverConfigs == {c \in Configs : c.zone_mix_sets = DEFAULT_ZONE_MIX_SETS}

\* the pattern of the run, fixed when it starts
DriverPatterns == {"all_on", "chase"}

\* what fft_frequency_bands may return for a frame of a run with audio
DriverBands == {FrequencyBands(Pct(50), Pct(40), Pct(30), Pct(20), Pct(35)),
                FrequencyBands(Scale, Scale, Scale, Scale, Scale)}

\* the time a response takes to arrive when it arrives before the timeout
Latencies == {Pct(2)}

MaxFrames == 2

\* run() after setup_lights returned and the engine was constructed
InitDriver ==
    /\ layout \in DriverLayouts
    /\ cfg \in DriverConfigs
    /\ eng = FreshEngine
    /\ now = 0
    /\ call = None
    /\ states = <<>>
    /\ log = <<>>
    /\ lights = <<>>
    /\ spectrum = None
    /\ raw = <<>>
    /\ norm = None
    /\ link \in [pc : {"loop"}, pattern : DriverPatterns, demo : BOOLEAN,
                 frame : {0}, loop_start : {0}, wake : {0},
                 component_ids : {[i \in 1..total_lights(layout) |-> CompId(i - 1)]},
                 slot_ids : {[i \in 1..total_lights(layout) |-> SlotId(i - 1)]},
                 built : {<<>>}, tasks : {<<>>}, wire : {<<>>}, inflight : {None},
                 timeouts : {0}]
    /\ probe = None
    /\ source = None

\* One pass of the while loop of run() from its start to the await of
\* update_lights: the bands of the frame (None in demo mode), compute, and
\* update_lights up to asyncio.gather, which suspends the loop unless there is
\* nothing to send; then the loop goes on to its sleep.
DriverFrame ==
    /\ link # None
    /\ link.pc = "loop"
    /\ link.frame < MaxFrames
    /\ \E bands \in IF link.demo THEN {None} ELSE DriverBands :
           ComputeCall(link.pattern, bands, Max(now, link.wake), 5)
    /\ LET msgs == UpdateLightsTasks(states', link.component_ids, link.slot_ids, 1)
           start == Max(now, link.wake)
       IN  link' = [link EXCEPT !.frame = @ + 1,
                                !.loop_start = start,
                                !.built = msgs,
                                !.tasks = msgs,
                                !.wire = <<>>,
                                !.pc = IF msgs = <<>> THEN "loop" ELSE "gather",
                                !.wake = IF msgs = <<>> THEN start + interval ELSE @]
    /\ UNCHANGED <<layout, cfg, log, lights, spectrum, raw, norm, probe, source>>

\* _send of the next task: the lock is free, the message goes out, and the
\* coroutine waits for the response
Send ==
    /\ link # None
    /\ link.pc = "gather"
    /\ link.inflight = None
    /\ link.tasks # <<>>
    /\ link' = [link EXCEPT !.inflight = Head(link.tasks),
                            !.tasks = Tail(link.tasks),
                            !.wire = Append(link.wire, Head(link.tasks))]
    /\ UNCHANGED <<layout, cfg, eng, now, call, states, log, lights, spectrum, raw, norm, probe, source>>

\* The _send in flight returns at instant t.  With the last of them gather and
\* update_lights return, and the loop sleeps for what is left of the interval.
SendReturns(t, timed_out) ==
    /\ now' = t
    /\ link' = [link EXCEPT !.inflight = None,
                            !.timeouts = IF timed_out THEN @ + 1 ELSE @,
                            !.pc = IF link.tasks = <<>> THEN "loop" ELSE @,
                            !.wake = IF link.tasks = <<>>
                                     THEN Max(t, link.loop_start + interval) ELSE @]
    /\ UNCHANGED <<layout, cfg, eng, call, states, log, lights, spectrum, raw, norm, probe, source>>

\* recv() returns the response
Receive ==
    /\ link # None
    /\ link.inflight # None
    /\ \E d \in Latencies : SendReturns(now + d, FALSE)

\* no response within 5 s: asyncio.TimeoutError, _send returns None
Timeout ==
    /\ link # None
    /\ link.inflight # None
    /\ SendReturns(now + recv_timeout, TRUE)

NextDriver == DriverFrame \/ Send \/ Receive \/ Timeout

SpecDriver == InitDriver /\ [][NextDriver]_vars

\* a _send of update_lights waits for its response
TransportWaiting == link # None /\ link.inflight # None

\* C12 as stated: while update_lights of frame N still waits on the transport
\* the loop can read the samples and run compute for frame N+1.
LoopNeverStalls ==
    (TransportWaiting /\ link.frame < MaxFrames) => ENABLED DriverFrame

\* what the code does: run() awaits update_lights, so no frame is computed
\* while a message is queued or in flight
LoopWaitsForTransportOfCode ==
    (link # None /\ link.pc = "gather") => ~ENABLED DriverFrame

\* the second frame of a run, computed 5 s or more after the first because a
\* response of the first did not arrive
LoopStalledWitness ==
    /\ link # None
    /\ link.frame = 2
    /\ link.timeouts >= 1
    /\ call.t >= recv_timeout

\* the positions in the messages update_lights built of those of the given
\* type and id
Built(type, id) ==
    {j \in 1..Len(link.built) : link.built[j].type = type /\ link.built[j].id = id}

\* C13: update_lights sends one updateComponent message per fixture and an
\* updateSlot message, carrying the absolute angle, if and only if the
\* fixture's rotation_y is not None; with rotation_y = None nothing is sent
\* to the fixture's slot.
RotationSentIffSet ==
    (link # None /\ link.frame >= 1) =>
        /\ \A i \in 1..Len(states) :
               /\ Cardinality(Built("updateComponent", CompId(i - 1))) = 1
               /\ Cardinality(Built("updateSlot", SlotId(i - 1)))
                      = IF states[i].rotation_y # None THEN 1 ELSE 0
               /\ \A j \in Built("updateSlot", SlotId(i - 1)) :
                      link.built[j].rotation = euler_y_to_quat(states[i].rotation_y)
        /\ Len(link.wire) <= Len(link.built)
        /\ link.wire = SubSeq(link.built, 1, Len(link.wire))
        /\ link.pc = "loop" => link.wire = link.built

\* the second frame of a run with rotation, sent whole: two messages per
\* light, the second of them turning the first light's slot
RotationSentIffSetWitness ==
    /\ link # None
    /\ link.frame = 2
    /\ link.pc = "loop"
    /\ layout = Layout3
    /\ cfg.rotation_enabled
    /\ Len(link.wire) = 6
    /\ link.wire[2].type = "updateSlot"
    /\ link.wire[2].id = SlotId(0)
    /\ link.wire[2].rotation.y > 0

(***************************************************************************)
(* The hue functions of audio_engine.py called on their own.               *)
(***************************************************************************)
\* the values k / MaxGrid of [0, 1]
MaxGrid == 10
Grid == {(k * Scale) \div MaxGrid : k \in 0..MaxGrid}

InitHue ==
    /\ layout = NoLights
    /\ cfg = PatternEngine(3, FALSE, 30 * Scale, TRUE, <<>>, 14 * Scale)
    /\ eng = FreshEngine
    /\ now = 0
    /\ call = None
    /\ states = <<>>
    /\ log = <<>>
    /\ lights = <<>>
    /\ spectrum = None
    /\ raw = <<>>
    /\ norm = None
    /\ link = None
    /\ probe = None
    /\ source = None

\* energy_to_hue(energy, base_hue)
EnergyToHue ==
    /\ probe = None
    /\ \E energy \in Grid, base_hue \in Grid :
           probe' = [fn |-> "energy_to_hue", args |-> <<energy, base_hue>>,
                     dividend |-> EnergyHueSum(energy, base_hue),
                     result |-> energy_to_hue(energy, base_hue)]
    /\ UNCHANGED <<layout, cfg, eng, now, call, states, log, lights, spectrum, raw, norm, link, source>>

\* rgb_to_hue(r, g, b)
RgbToHue ==
    /\ probe = None
    /\ \E r \in Grid, g \in Grid, b \in Grid :
           probe' = [fn |-> "rgb_to_hue", args |-> <<r, g, b>>,
                     dividend |-> IF r = g /\ g = b THEN 0
                                  ELSE RgbHueSextant(r, g, b) \div 6,
                     result |-> rgb_to_hue(r, g, b)]
    /\ UNCHANGED <<layout, cfg, eng, now, call, states, log, lights, spectrum, raw, norm, link, source>>

\* bands_to_hue(bands), which reads low, mid and high
BandsToHue ==
    /\ probe = None
    /\ \E l \in Grid, m \in Grid, h \in Grid :
           probe' = [fn |-> "bands_to_hue", args |-> <<l, m, h>>,
                     dividend |-> BandsHueQuotient(FrequencyBands(l, l, m, h, l)),
                     result |-> bands_to_hue(FrequencyBands(l, l, m, h, l))]
    /\ UNCHANGED <<layout, cfg, eng, now, call, states, log, lights, spectrum, raw, norm, link, source>>

NextHue == EnergyToHue \/ RgbToHue \/ BandsToHue

SpecHue == InitHue /\ [][NextHue]_vars

BandRanges == <<<<20, 250>>, <<60, 150>>, <<250, 2000>>, <<2000, 20000>>, <<20, 20000>>>>

\* the mean of bins lo .. hi - 1 of the spectrum analysed, 0 for no bins
MeanOfBins(lo, hi) ==
    IF hi <= lo THEN 0
    ELSE SumSeq(SubSeq(spectrum.mags, lo + 1, hi)) \div (hi - lo)

\* floor(hz / bin_width) and ceil(hz / bin_width), bin_width = sample_rate / fft_size
FloorBin(hz) == (hz * spectrum.fft_size) \div spectrum.sample_rate
CeilBin(hz) ==
    (hz * spectrum.fft_size + spectrum.sample_rate - 1) \div spectrum.sample_rate

\* C15 as stated: the energy of the band [lo, hi] is the mean over the bins
\* floor(lo / bin_width) up to but excluding min(ceil(hi / bin_width),
\* num_bins), and 0 when that range is empty.
BandEnergyCeilBins ==
    raw # <<>> =>
        \A j \in 1..5 :
            raw[j] = MeanOfBins(FloorBin(BandRanges[j][1]),
                                Min(CeilBin(BandRanges[j][2]), Len(spectrum.mags)))

\* what the code does: the range ends before min(floor(hi / bin_width) + 1,
\* num_bins), one bin further when hi / bin_width is an integer
BandEnergyBinsOfCode ==
    raw # <<>> =>
        \A j \in 1..5 :
            raw[j] = MeanOfBins(FloorBin(BandRanges[j][1]),
                                Min(FloorBin(BandRanges[j][2]) + 1, Len(spectrum.mags)))

\* 8000 Hz and 8 samples, bin_width 1000 Hz: the mid band 250-2000 Hz takes
\* in bin 2, which lies at 2000 Hz
BandEnergyBinsWitness ==
    /\ raw # <<>>
    /\ spectrum.sample_rate = 8000
    /\ spectrum.mags = <<0, 0, 25000000, 0, 0>>
    /\ raw[3] = 25000000 \div 3
    /\ MeanOfBins(FloorBin(250), Min(CeilBin(2000), 5)) = 0

(***************************************************************************)
(* The side of the head the chase tail lies on.                            *)
(***************************************************************************)
\* head_pos = phase * n of the frame, in fixtures
HeadPos == phase_of(call.rd.phase) * Len(states)

\* how far fixture i (global_index i - 1) lies behind the head, that is on the
\* side of the indices the head has left as the phase grew, and how far ahead
DistBehind(i) == (HeadPos - (i - 1) * Scale) % (Len(states) * Scale)
DistAhead(i) == ((i - 1) * Scale - HeadPos) % (Len(states) * Scale)

ChaseFrame == Called /\ call.pattern = "chase" /\ ~HasBands /\ Len(states) >= 1

\* a fixture lit with decaying intensity: lit, and dimmer than the head
Dimmed(i) == 0 < states[i].intensity /\ states[i].intensity < Scale

\* C16 as stated: in chase every fixture lit with decaying intensity is one
\* the head has already passed, at most chase_tail fixtures behind it.
ChaseTailBehindHead ==
    ChaseFrame =>
        \A i \in 1..Len(states) : Dimmed(i) => DistBehind(i) <= cfg.chase_tail * Scale

\* what the code does: the fixtures lit with decaying intensity are those at
\* most chase_tail fixtures ahead of the head, which it is about to reach
ChaseTailAheadOfCode ==
    ChaseFrame =>
        \A i \in 1..Len(states) : Dimmed(i) => DistAhead(i) <= cfg.chase_tail * Scale

\* tail = 3, N = 19, the head on fixture 5: fixtures 6, 7, 8 are dimmed and
\* fixtures 2, 3, 4, which the head has passed, are dark
ChaseTailAheadWitness ==
    /\ ChaseFrame
    /\ cfg.chase_tail = 3
    /\ Len(states) = 19
    /\ HeadPos = 5 * Scale
    /\ Dimmed(7) /\ Dimmed(8) /\ Dimmed(9)
    /\ states[9].intensity < states[7].intensity
    /\ states[3].intensity = 0 /\ states[4].intensity = 0 /\ states[5].intensity = 0
    /\ DistBehind(9) > cfg.chase_tail * Scale

(***************************************************************************)
(* The zone_mix schedule.                                                  *)
(***************************************************************************)
\* The position in zone_mix_sets of the set in force t after the start, by
\* the schedule itself: the first set during the first cycle, then the next
\* of the list for each zone_cycle_seconds gone by, the first again after the
\* last.
RECURSIVE ScheduledSet(_)
ScheduledSet(t) ==
    IF t < cfg.zone_cycle_seconds THEN 1
    ELSE LET before == ScheduledSet(t - cfg.zone_cycle_seconds)
         IN  IF before = Len(cfg.zone_mix_sets) THEN 1 ELSE before + 1

\* the pattern the k-th set gives the zone of the i-th fixture
ScheduledPattern(k, i) ==
    LET zone_set == cfg.zone_mix_sets[k]
        zone == ZoneAt(layout, i)
        name == IF zone \in DOMAIN zone_set THEN zone_set[zone] ELSE "bass_flood"
    IN  IF name \in Pattern THEN name ELSE "bass_flood"

\* C17: under zone_mix the set in force at elapsed time t is
\* zone_mix_sets[floor(t / zone_cycle_seconds) mod number_of_sets], the sets
\* taken in list order, one full cycle each, the first again after the last,
\* and every fixture of the frame has the pattern this one set gives its zone.
ZoneMixSetSchedule ==
    (Called /\ call.pattern = "zone_mix") =>
        LET k == ScheduledSet(call.rd.zone)
        IN  /\ k = ((call.rd.zone \div cfg.zone_cycle_seconds) % Len(cfg.zone_mix_sets)) + 1
            /\ \A i \in 1..Len(states) : call.ps[i] = ScheduledPattern(k, i)

\* two sets cycling every half second, the clock at 14 s: 28 cycles have gone
\* by and the first set is in force again, for the left and the top zone alike
ZoneMixSetScheduleWitness ==
    /\ Called
    /\ call.pattern = "zone_mix"
    /\ cfg.zone_cycle_seconds = Scale \div 2
    /\ Len(cfg.zone_mix_sets) = 2
    /\ call.rd.zone = 14 * Scale
    /\ ScheduledSet(call.rd.zone) = 1
    /\ Len(states) = 19
    /\ call.ps[11] = "all_on"
    /\ call.ps[19] = "treble_hue"

(***************************************************************************)
(* The elapsed time of a frame.                                            *)
(***************************************************************************)
\* what the call returns when every quantity is derived from the elapsed
\* time t
SingleTimeFrame(t) ==
    compute(layout, cfg, call.pre, call.pattern, call.bands, ClockReads(t, 5)).states

\* the beat detector state it leaves then
SingleTimeEngine(t) ==
    compute(layout, cfg, call.pre, call.pattern, call.bands, ClockReads(t, 5)).eng

\* C18 as stated: phase, time_hue, rotation angle, zone_mix set index,
\* breathing intensity and hue shift and the beat timestamp of one call are
\* derived from one and the same elapsed time, so the list returned is a
\* function of pattern, bands, that elapsed time, layout and beat state.
OneElapsedTimePerFrame ==
    Called =>
        /\ states = SingleTimeFrame(call.rd.phase)
        /\ eng = SingleTimeEngine(call.rd.phase)

\* what the code does: each quantity has a clock read of its own, none
\* earlier than the one before it in the call
ClockReadPerQuantityOfCode ==
    Called =>
        /\ call.rd.phase <= call.rd.hue
        /\ call.rd.hue <= call.rd.rot
        /\ call.rd.rot <= call.rd.breath
        /\ call.rd.rot <= call.rd.zone
        /\ call.rd.zone <= call.rd.beat
        /\ call.rd.breath <= call.rd.beat

\* a frame with rotation whose clock moved on between the read of _phase and
\* the read of _rotation_y: the angle returned is that of neither instant
\* alone with the rest of the frame
ClockMovedWithinFrameWitness ==
    /\ Called
    /\ cfg.rotation_enabled
    /\ Len(states) = 19
    /\ call.rd.phase < call.rd.rot
    /\ states # SingleTimeFrame(call.rd.phase)
    /\ states # SingleTimeFrame(call.rd.rot)

(***************************************************************************)
(* The breathing pattern.                                                  *)
(***************************************************************************)
BreathingFrame == Called /\ call.pattern = "breathing" /\ Len(states) >= 1

\* 0.4 + 0.6 * (0.5 + 0.5 * sin(2 * pi * t * 0.35))
BreathIntensity(t) ==
    Pct(40) + Mul(Pct(60), Pct(50) + Mul(Pct(50), SinPi(Mul(t, Pct(70)))))

\* C19: in a breathing frame every fixture has the same LightState, r, g, b,
\* intensity and rotation_y alike, and the intensity is
\* 0.4 + 0.6 * (0.5 + 0.5 * sin(2 * pi * t * 0.35)), within [0.4, 1.0].
BreathingSameForAll ==
    BreathingFrame =>
        /\ \A i \in 1..Len(states) : states[i] = states[1]
        /\ states[1].intensity = BreathIntensity(call.rd.breath)
        /\ Pct(40) <= states[1].intensity
        /\ states[1].intensity <= Scale

\* 19 lights breathing with rotation, bands present, in the falling half of
\* the sine: the last fixture has the state of the first, below 0.7
BreathingSameForAllWitness ==
    /\ BreathingFrame
    /\ HasBands
    /\ cfg.rotation_enabled
    /\ Len(states) = 19
    /\ call.rd.breath > Scale
    /\ states[1].intensity < Pct(70)
    /\ states[19] = states[1]
    /\ states[19].rotation_y # None

(***************************************************************************)
(* The center_out pattern with bands absent.                               *)
(***************************************************************************)
CenterOutFrame == Called /\ call.pattern = "center_out" /\ ~HasBands /\ Len(states) >= 1

\* twice the distance of a fixture from the centre (zone_count - 1) / 2 of
\* its zone: a whole number of half fixtures
TwiceDist(ld) ==
    LET d == 2 * ld.zone_index - (ld.zone_count - 1)
    IN  IF d < 0 THEN 0 - d ELSE d

Lit(i) == states[i].intensity > 0

\* the fixtures of a zone that are lit
LitInZone(zone) ==
    {j \in 1..Len(states) : ZoneAt(layout, j) = zone /\ Lit(j)}

\* the phases of the instants of a frame
PhaseGrid == {phase_of(t) : t \in Times}

\* a fixture is within the radius
\* 0.5 + phase * ((zone_count - 1) / 2 + 0.5 - 0.5) of the centre of its zone
WithinRadius(ld, phase) ==
    TwiceDist(ld) * Scale <= Scale + phase * (ld.zone_count - 1)

\* the growth of the radius with the phase and the range of a lit intensity,
\* lds the descriptors of the fixtures of the frame
CenterOutGrowth(lds) ==
    \A i \in 1..Len(states) :
        /\ Lit(i) <=> WithinRadius(lds[i], phase_of(call.rd.phase))
        /\ Lit(i) =>
               /\ \A later \in PhaseGrid :
                      later >= phase_of(call.rd.phase) =>
                          center_out_intensity(lds[i], later, None) > 0
               /\ Pct(70) <= states[i].intensity
               /\ states[i].intensity <= Scale

TrebleHueFrame == Called /\ call.pattern = "treble_hue" /\ HasBands /\ Len(states) >= 1

\* r, g, b of the i-th LightState of the frame
ColorOf(i) == <<states[i].r, states[i].g, states[i].b>>

\* the hue of bands_to_hue with the offset of the i-th fixture
TrebleHue(i) == Mod1(bands_to_hue(call.bands) + HueOffset(i))

\* C21 as stated: in treble_hue the colour of each fixture is the hue of
\* bands_to_hue plus the per-fixture offset, not shifted further, at full
\* saturation and full value: hue_to_rgb(hue, 1, 1).
TrebleHueFullSaturation ==
    TrebleHueFrame =>
        \A i \in 1..Len(states) : ColorOf(i) = hue_to_rgb(TrebleHue(i), Scale, Scale)

\* what the code does: energy_to_color(1.0, hue) turns the hue on by 0.7 and
\* renders it at saturation 0.85, value 1.0
TrebleHueOfCode ==
    TrebleHueFrame =>
        \A i \in 1..Len(states) :
            ColorOf(i) = hue_to_rgb(Mod1(TrebleHue(i) + Pct(70)), Pct(85), Scale)

\* silent bands on 19 lights: bands_to_hue is 0, red at full saturation, and
\* the first fixture is a blue-violet with no channel below 0.15
TrebleHueOfCodeWitness ==
    /\ TrebleHueFrame
    /\ Len(states) = 19
    /\ call.bands.low = 0 /\ call.bands.mid = 0 /\ call.bands.high = 0
    /\ hue_to_rgb(TrebleHue(1), Scale, Scale) = <<Scale, 0, 0>>
    /\ states[1].b = Scale
    /\ states[1].g = Pct(15)
    /\ states[1].r > Pct(15)

(***************************************************************************)
(* zone_mix against the pattern selected for the whole frame.              *)
(***************************************************************************)
ZoneMixFrame == Called /\ call.pattern = "zone_mix" /\ Len(states) >= 1

\* for each effective pattern of the frame, what compute returns when that
\* pattern is selected for the whole frame at the same clock readings, bands
\* and beat detector state
GlobalFrames ==
    [p \in {call.ps[i] : i \in 1..Len(states)} |->
        compute(layout, cfg, call.pre, p, call.bands, call.rd).states]

\* C22 as stated: in zone_mix a fixture whose zone is mapped to a valid pattern
\* name has the intensity the named pattern gives that fixture when selected
\* for the whole frame at the same time and bands, for every name of the 18.
ZoneMixIntensityAsGlobal ==
    ZoneMixFrame =>
        LET global == GlobalFrames
        IN  \A i \in 1..Len(states) :
                states[i].intensity = global[call.ps[i]][i].intensity

\* what the code does: the same, but for breathing named as a sub-pattern,
\* which no branch of the loop over the fixtures handles: the fixture is dark
ZoneMixIntensityOfCode ==
    ZoneMixFrame =>
        LET global == GlobalFrames
        IN  \A i \in 1..Len(states) :
                states[i].intensity =
                    IF call.ps[i] = "breathing" THEN 0
                    ELSE global[call.ps[i]][i].intensity

\* the second custom set in force on 19 lights: the left zone is mapped to
\* breathing and is dark, while a breathing frame has at least 0.4 there
ZoneMixBreathingDarkWitness ==
    /\ ZoneMixFrame
    /\ Len(states) = 19
    /\ call.ps[1] = "breathing"
    /\ call.ps[6] = "zone_mix"
    /\ states[1].intensity = 0
    /\ GlobalFrames["breathing"][1].intensity >= Pct(40)

(***************************************************************************)
(* The beat hue within one frame.                                          *)
(***************************************************************************)
\* the colour of beat_hue for the i-th fixture from the accumulated hue h
BeatHueColor(h, i) == energy_to_color(Pct(90), Mod1(h + Mul(HueOffset(i), Pct(50))))

\* C23: one compute call, in beat_hue or in zone_mix resolving to beat_hue,
\* advances the accumulated beat hue by at most one step of 0.2, however many
\* fixtures call the detector, and every beat_hue fixture of the frame is
\* coloured from the one hue the call leaves.
BeatHueOneStepPerFrame ==
    Called =>
        /\ \/ eng.beat_hue = call.pre.beat_hue
           \/ eng.beat_hue = (call.pre.beat_hue + Pct(20)) % Scale
        /\ \A i \in 1..Len(states) :
               call.ps[i] = "beat_hue" => ColorOf(i) = BeatHueColor(eng.beat_hue, i)

\* zone_mix on three lights, the two on the right in beat_hue: a beat on the
\* first of them, and both are coloured from the hue 0.2 it leaves
BeatHueOneStepPerFrameWitness ==
    /\ Called
    /\ call.pattern = "zone_mix"
    /\ call.beats = 1
    /\ Len(states) = 3
    /\ call.ps[2] = "beat_hue" /\ call.ps[3] = "beat_hue"
    /\ call.pre.beat_hue = 0
    /\ eng.beat_hue = Pct(20)
    /\ ColorOf(2) = BeatHueColor(Pct(20), 2)
    /\ ColorOf(3) = BeatHueColor(Pct(20), 3)
    /\ ColorOf(2) # BeatHueColor(0, 2)

(***************************************************************************)
(* The beat detector state across frames.                                  *)
(***************************************************************************)
\* the detector ran in the call: bands present and a fixture in beat_hue
DetectorRan == HasBands /\ \E i \in 1..Len(states) : call.ps[i] = "beat_hue"

\* C24: a compute call with bands absent, or with no fixture in beat_hue,
\* leaves previous bass, last beat instant and accumulated hue unchanged, and
\* no call changes the start instant.  So the previous bass is always that of
\* the last beat_hue frame with bands, and it is against this bass that the
\* rise of a beat is measured.
BeatStateOnlyByBeatHue ==
    Called =>
        /\ eng.start_time = call.pre.start_time
        /\ ~DetectorRan => eng = call.pre
        /\ DetectorRan => eng.prev_bass = call.bands.upper_bass
        /\ call.beats > 0 =>
               /\ DetectorRan
               /\ call.bands.upper_bass - call.pre.prev_bass > Pct(25)

\* an all_on frame with the bass at 1.0 after a beat on a bass of 0.4: the
\* previous bass is still 0.4, the last beat instant and the hue are kept
BeatStateOnlyByBeatHueWitness ==
    /\ Called
    /\ call.pattern = "all_on"
    /\ HasBands
    /\ call.bands.upper_bass = Scale
    /\ call.pre.prev_bass = Pct(40)
    /\ call.pre.beat_hue = Pct(20)
    /\ eng = call.pre

(***************************************************************************)
(* The normalisation in floating point.  A float is m * 2^e with m of      *)
(* MantissaBits bits, every operation rounded to the nearest float, ties   *)
(* to the even mantissa, as Python's float operations are at 53 bits.      *)
(***************************************************************************)
MantissaBits == 13

FlZero == [m |-> 0, e |-> 0]

\* the least j >= from with n / 2^j below 2^MantissaBits
RECURSIVE FlShift(_, _)
FlShift(n, from) ==
    IF n \div (2 ^ from) < 2 ^ MantissaBits THEN from ELSE FlShift(n, from + 1)

\* the float nearest to n * 2^e, n a natural number
RECURSIVE FlRound(_, _)
FlRound(n, e) ==
    IF n = 0 THEN FlZero
    ELSE IF n < 2 ^ (MantissaBits - 1) THEN FlRound(2 * n, e - 1)
    ELSE LET j == FlShift(n, 0)
             q == n \div (2 ^ j)
             r == n % (2 ^ j)
             up == j > 0 /\ (2 * r > 2 ^ j \/ (2 * r = 2 ^ j /\ q % 2 = 1))
             m == IF up THEN q + 1 ELSE q
         IN  IF m = 2 ^ MantissaBits THEN [m |-> 2 ^ (MantissaBits - 1), e |-> e + j + 1]
             ELSE [m |-> m, e |-> e + j]

\* a whole number below 2^MantissaBits as a float
FlInt(n) == FlRound(n, 0)

\* x * y
FlMul(x, y) == FlRound(x.m * y.m, x.e + y.e)

\* the least k >= from with (a * 2^k) / b of more than MantissaBits bits
RECURSIVE FlQuotShift(_, _, _)
FlQuotShift(a, b, from) ==
    IF (a * (2 ^ from)) \div b >= 2 ^ (MantissaBits + 1) THEN from
    ELSE FlQuotShift(a, b, from + 1)

\* x / y, y not 0: the quotient to MantissaBits + 1 bits and more, an odd last
\* bit standing for a remainder
FlDiv(x, y) ==
    IF x.m = 0 THEN FlZero
    ELSE LET k == FlQuotShift(x.m, y.m, 0)
             n == (x.m * (2 ^ k)) \div y.m
             rem == (x.m * (2 ^ k)) % y.m
         IN  FlRound(2 * n + (IF rem = 0 THEN 0 ELSE 1), x.e - y.e - k - 1)

\* x + y
FlAdd(x, y) ==
    IF x.m = 0 THEN y
    ELSE IF y.m = 0 THEN x
    ELSE LET hi == IF x.e >= y.e THEN x ELSE y
             lo == IF x.e >= y.e THEN y ELSE x
             s == hi.e - lo.e
         IN  IF s > MantissaBits + 1
             THEN FlRound(hi.m * (2 ^ (MantissaBits + 2)) + 1, hi.e - (MantissaBits + 2))
             ELSE FlRound(hi.m * (2 ^ s) + lo.m, lo.e)

\* x < y and x <= y
FlLess(x, y) ==
    IF y.m = 0 THEN FALSE
    ELSE IF x.m = 0 THEN TRUE
    ELSE x.e < y.e \/ (x.e = y.e /\ x.m < y.m)

FlLeq(x, y) == x = y \/ FlLess(x, y)

FlMax(x, y) == IF FlLess(x, y) THEN y ELSE x

FlMin(x, y) == IF FlLess(y, x) THEN y ELSE x

\* the float literal a / b, as 0.2 is 1 / 5
FlLiteral(a, b) == FlDiv(FlInt(a), FlInt(b))

\* scale of fft_frequency_bands with a fault seeded: the largest raw energy
\* is not doubled
FloatScaleNoDouble(mx) == FlDiv(FlInt(1), FlMax(FlInt(RawEps), FlInt(mx)))

\* scale = 1.0 / max(1e-6, max(...) * 2.0), mx the largest raw energy in
\* units of 1e-7
FloatScale(mx) == FlDiv(FlInt(1), FlMax(FlInt(RawEps), FlMul(FlInt(mx), FlInt(2))))

\* min(1.0, x * scale) for the raw energy x
FloatNormalized(x, mx) == FlMin(FlInt(1), FlMul(FlInt(x), FloatScale(mx)))

\* 0.2 + 0.8 * bands.low of the BASS_FLOOD branch
FloatBassFlood(low) == FlAdd(FlLiteral(1, 5), FlMul(FlLiteral(4, 5), low))

\* the largest raw energy and another one of the five, in units of 1e-7
MaxNormRaw == 48

InitNorm ==
    /\ layout = NoLights
    /\ cfg = PatternEngine(3, FALSE, 30 * Scale, TRUE, <<>>, 14 * Scale)
    /\ eng = FreshEngine
    /\ now = 0
    /\ call = None
    /\ states = <<>>
    /\ log = <<>>
    /\ lights = <<>>
    /\ spectrum = None
    /\ raw = <<>>
    /\ norm = None
    /\ link = None
    /\ probe = None
    /\ source = None

\* the normalisation of fft_frequency_bands for the largest raw energy mx and
\* a raw energy x of the low band, and bass_flood driven by the result
NormalizeFloat ==
    /\ probe = None
    /\ \E mx \in 0..MaxNormRaw, x \in 0..MaxNormRaw :
           /\ x <= mx
           /\ probe' = [fn |-> "normalize", mx |-> mx, x |-> x,
                        unclamped |-> FlMul(FlInt(x), FloatScale(mx)),
                        top |-> FloatNormalized(mx, mx),
                        low |-> FloatNormalized(x, mx),
                        flood |-> FloatBassFlood(FloatNormalized(x, mx))]
    /\ UNCHANGED <<layout, cfg, eng, now, call, states, log, lights, spectrum, raw, norm, link, source>>

NextNorm == NormalizeFloat

SpecNorm == InitNorm /\ [][NextNorm]_vars

FlHalf == FlLiteral(1, 2)

\* the float next below a float above 0
FlPred(x) ==
    IF x.m > 2 ^ (MantissaBits - 1) THEN [m |-> x.m - 1, e |-> x.e]
    ELSE [m |-> 2 ^ MantissaBits - 1, e |-> x.e - 1]

\* the float next above
FlSucc(x) ==
    IF x.m < 2 ^ MantissaBits - 1 THEN [m |-> x.m + 1, e |-> x.e]
    ELSE [m |-> 2 ^ (MantissaBits - 1), e |-> x.e + 1]

Normalised == probe # None /\ probe.fn = "normalize"

\* C25 as stated: no normalised value exceeds 0.5, the largest raw energy maps
\* to exactly 0.5 when it is at least 5e-7 and to less otherwise, the clamp at
\* 1 is never active, and bass_flood driven by these bands never exceeds 0.6.
NormalizedTopExactlyHalf ==
    Normalised =>
        /\ FlLeq(probe.low, FlHalf)
        /\ FlLeq(probe.top, FlHalf)
        /\ 2 * probe.mx >= RawEps => probe.top = FlHalf
        /\ 2 * probe.mx < RawEps => FlLess(probe.top, FlHalf)
        /\ probe.low = probe.unclamped
        /\ FlLeq(probe.flood, FlLiteral(3, 5))

\* C25: no normalised value exceeds 0.5, the largest raw energy maps to 0.5 or
\* to the float next below 0.5 when it is at least 5e-7 and to less than 0.5
\* otherwise, the clamp at 1 is never active, and bass_flood driven by these
\* bands never exceeds the float next above 0.6.
NormalizedTopHalfRounded ==
    Normalised =>
        /\ FlLeq(probe.low, FlHalf)
        /\ FlLeq(probe.top, FlHalf)
        /\ 2 * probe.mx >= RawEps => probe.top \in {FlHalf, FlPred(FlHalf)}
        /\ 2 * probe.mx < RawEps => FlLess(probe.top, FlHalf)
        /\ probe.low = probe.unclamped
        /\ FlLeq(probe.flood, FlSucc(FlLiteral(3, 5)))

\* a largest raw energy of 4.5e-6 whose product with the rounded reciprocal of
\* its double rounds to the float next below 0.5
NormalizedTopHalfRoundedWitness ==
    /\ Normalised
    /\ probe.mx = 45
    /\ probe.x = 45
    /\ probe.top = FlPred(FlHalf)
    /\ FlLess(probe.top, FlHalf)

(***************************************************************************)
(* audio_source.py: FileSource.                                            *)
(***************************************************************************)
MaxFileLen == 4
MaxChunk == 6
MaxReads == 4

\* data[a:b] of a numpy array: the bounds are cut to the length
Slice(data, a, b) == SubSeq(data, Min(a, Len(data)) + 1, Min(b, Len(data)))

InitFile ==
    /\ layout = NoLights
    /\ cfg = PatternEngine(3, FALSE, 30 * Scale, TRUE, <<>>, 14 * Scale)
    /\ eng = FreshEngine
    /\ now = 0
    /\ call = None
    /\ states = <<>>
    /\ log = <<>>
    /\ lights = <<>>
    /\ spectrum = None
    /\ raw = <<>>
    /\ norm = None
    /\ link = None
    /\ probe = None
    /\ source = None

\* FileSource(path, sample_rate, chunk_size).start() on a file of len samples,
\* the k-th sample standing as k
FileStart ==
    /\ source = None
    /\ \E len \in 1..MaxFileLen, chunk_size \in 1..MaxChunk :
           source' = [data |-> [k \in 1..len |-> k], chunk_size |-> chunk_size, pos |-> 0,
                      chunk |-> <<>>, out |-> <<>>, reads |-> 0]
    /\ UNCHANGED <<layout, cfg, eng, now, call, states, log, lights, spectrum, raw, norm, link, probe>>

\* read(): the chunk returned, appended to what the reads returned so far
FileRead ==
    /\ source # None
    /\ source.reads < MaxReads
    /\ LET start == source.pos
           end == start + source.chunk_size
           len == Len(source.data)
           chunk == IF end > len
                    THEN Slice(source.data, start, len) \o Slice(source.data, 0, end - len)
                    ELSE Slice(source.data, start, end)
       IN  source' = [source EXCEPT !.pos = IF end > len THEN end - len ELSE end,
                                    !.chunk = chunk,
                                    !.out = @ \o chunk,
                                    !.reads = @ + 1]
    /\ UNCHANGED <<layout, cfg, eng, now, call, states, log, lights, spectrum, raw, norm, link, probe>>

\* stop()
FileStop ==
    /\ source # None
    /\ source' = None
    /\ UNCHANGED <<layout, cfg, eng, now, call, states, log, lights, spectrum, raw, norm, link, probe>>

NextFile == FileStart \/ FileRead \/ FileStop

SpecFile == InitFile /\ [][NextFile]_vars

\* what the reads returned so far is the file repeated from its beginning
Cyclic ==
    \A k \in 1..Len(source.out) :
        source.out[k] = source.data[((k - 1) % Len(source.data)) + 1]

\* C26 as stated: after start on a file of L >= 1 samples every read returns
\* exactly chunk_size samples, the reads together are the samples of the file
\* repeated from the beginning, and 0 <= pos <= L, for every chunk_size >= 1,
\* larger than L or not.
FileReadLoops ==
    source # None =>
        /\ source.reads > 0 => Len(source.chunk) = source.chunk_size
        /\ Cyclic
        /\ 0 <= source.pos
        /\ source.pos <= Len(source.data)

\* what the code does: all of this for a chunk_size of at most L samples
FileReadLoopsWithinFile ==
    (source # None /\ source.chunk_size <= Len(source.data)) =>
        /\ source.reads > 0 => Len(source.chunk) = source.chunk_size
        /\ Cyclic
        /\ 0 <= source.pos
        /\ source.pos <= Len(source.data)

\* a file of 2 samples read in chunks of 5: the first read returns 4 samples
\* and leaves the position at 3, past the end of the file
FileReadShortWitness ==
    /\ source # None
    /\ Len(source.data) = 2
    /\ source.chunk_size = 5
    /\ source.reads = 1
    /\ source.chunk = <<1, 2, 1, 2>>
    /\ source.pos = 3

(***************************************************************************)
(* _send and the peer: the requests of one update_lights, numbered in the  *)
(* order gather started them, which is the order they take _send_lock in.  *)
(* link.peer are the requests the peer has received and not answered,      *)
(* link.socket the responses that arrived and no recv() has returned yet,  *)
(* link.returned what each _send that is over returned.                    *)
(***************************************************************************)
MaxRequests == 3

\* what _send returns on asyncio.TimeoutError
NoResponse == [timeout |-> TRUE]

InitSend ==
    /\ layout = NoLights
    /\ cfg = PatternEngine(3, FALSE, 30 * Scale, TRUE, <<>>, 14 * Scale)
    /\ eng = FreshEngine
    /\ now = 0
    /\ call = None
    /\ states = <<>>
    /\ log = <<>>
    /\ lights = <<>>
    /\ spectrum = None
    /\ raw = <<>>
    /\ norm = None
    /\ link = [pc |-> "gather", tasks |-> [i \in 1..MaxRequests |-> i], inflight |-> None,
               peer |-> {}, socket |-> <<>>, returned |-> <<>>, timeouts |-> 0]
    /\ probe = None
    /\ source = None

\* _send of the next task takes the lock and sends its message
SendMessage ==
    /\ link.inflight = None
    /\ link.tasks # <<>>
    /\ link' = [link EXCEPT !.inflight = [request |-> Head(link.tasks)],
                            !.tasks = Tail(link.tasks),
                            !.peer = @ \cup {Head(link.tasks)}]
    /\ UNCHANGED <<layout, cfg, eng, now, call, states, log, lights, spectrum, raw, norm, probe, source>>

\* the peer answers a request it has received, whenever it gets to it
PeerResponds ==
    /\ \E r \in link.peer :
           link' = [link EXCEPT !.peer = @ \ {r},
                                !.socket = Append(@, [response_to |-> r])]
    /\ UNCHANGED <<layout, cfg, eng, now, call, states, log, lights, spectrum, raw, norm, probe, source>>

\* recv() returns the oldest message of the socket to the _send that waits
RecvReturns ==
    /\ link.inflight # None
    /\ link.socket # <<>>
    /\ link' = [link EXCEPT !.inflight = None,
                            !.socket = Tail(@),
                            !.returned = Append(@, [request |-> link.inflight.request,
                                                    result |-> Head(link.socket)])]
    /\ UNCHANGED <<layout, cfg, eng, now, call, states, log, lights, spectrum, raw, norm, probe, source>>

\* nothing arrived for 5 s: _send returns None and releases the lock
RecvTimesOut ==
    /\ link.inflight # None
    /\ link.socket = <<>>
    /\ link' = [link EXCEPT !.inflight = None,
                            !.timeouts = @ + 1,
                            !.returned = Append(@, [request |-> link.inflight.request,
                                                    result |-> NoResponse])]
    /\ UNCHANGED <<layout, cfg, eng, now, call, states, log, lights, spectrum, raw, norm, probe, source>>

NextSend == SendMessage \/ PeerResponds \/ RecvReturns \/ RecvTimesOut

SpecSend == InitSend /\ [][NextSend]_vars

\* the _send calls that are over and returned a response
Answered == {j \in 1..Len(link.returned) : link.returned[j].result # NoResponse}

\* C27 as stated: every _send returns the response to the message it sent, or
\* None on a timeout; no response is attributed to another request, also when
\* the response to an earlier request arrives after that request timed out.
ResponseToOwnRequest ==
    \A j \in Answered : link.returned[j].result.response_to = link.returned[j].request

\* what the code does: a _send returns the response to its own message as
\* long as no _send before it has timed out
ResponseToOwnRequestUntilTimeout ==
    \A j \in Answered :
        (\A k \in 1..(j - 1) : link.returned[k].result # NoResponse) =>
            link.returned[j].result.response_to = link.returned[j].request

\* the first _send timed out, its response arrived late and was returned to
\* the second _send
ResponseMisattributedWitness ==
    /\ Len(link.returned) >= 2
    /\ link.returned[1] = [request |-> 1, result |-> NoResponse]
    /\ link.returned[2] = [request |-> 2, result |-> [response_to |-> 1]]


(***************************************************************************)
(* run() from the return of client.connect() to its end.  link.world_root *)
(* says whether the root slot exists in Resonite, link.root_slot_id        *)
(* whether the client holds its id, link.calls the cleanup calls made so   *)
(* far, link.how the path by which the run ended.                          *)
(***************************************************************************)
\* requests of setup_lights: the root slot, the variable space, a light
MaxSetupSteps == 3
MaxLoopFrames == 3

InitExit ==
    /\ layout = NoLights
    /\ cfg = PatternEngine(3, FALSE, 30 * Scale, TRUE, <<>>, 14 * Scale)
    /\ eng = FreshEngine
    /\ now = 0
    /\ call = None
    /\ states = <<>>
    /\ log = <<>>
    /\ lights = <<>>
    /\ spectrum = None
    /\ raw = <<>>
    /\ norm = None
    /\ \E demo \in BOOLEAN, pulse \in BOOLEAN, ffmpeg \in BOOLEAN :
           link = [pc |-> "setup", demo |-> demo, pulse |-> pulse, ffmpeg |-> ffmpeg,
                   step |-> 0, world_root |-> FALSE, root_slot_id |-> FALSE,
                   connected |-> TRUE, audio |-> "none", frame |-> 0,
                   calls |-> <<>>, how |-> "running"]
    /\ probe = None
    /\ source = None

\* client.teardown(): removeSlot only when the client holds a root id
Teardown(l) ==
    IF l.root_slot_id
    THEN [l EXCEPT !.calls = Append(@, "teardown"), !.world_root = FALSE, !.root_slot_id = FALSE]
    ELSE [l EXCEPT !.calls = Append(@, "teardown")]

\* client.disconnect()
Disconnect(l) == [l EXCEPT !.calls = Append(@, "disconnect"), !.connected = FALSE]

\* audio.stop() of the finally block, only for a source that exists
StopAudio(l) ==
    IF l.audio = "none" THEN l
    ELSE [l EXCEPT !.calls = Append(@, "stop"), !.audio = "stopped"]

\* sys.exit(1), or the end of run()
Ended(l, how) == [l EXCEPT !.pc = "ended", !.how = how]

\* one request of setup_lights answered without errorInfo
SetupRequest ==
    /\ link.pc = "setup"
    /\ link.step < MaxSetupSteps
    /\ link' = [link EXCEPT !.step = @ + 1,
                            !.root_slot_id = TRUE,
                            !.world_root = TRUE,
                            !.pc = IF link.step + 1 = MaxSetupSteps THEN "audio" ELSE "setup"]
    /\ UNCHANGED <<layout, cfg, eng, now, call, states, log, lights, spectrum, raw, norm, probe, source>>

\* a request of setup_lights answered with errorInfo: _check_response raises
\* and run() handles the exception
SetupRequestFails ==
    /\ link.pc = "setup"
    /\ link.step < MaxSetupSteps
    /\ link' = Ended(Disconnect([link EXCEPT !.root_slot_id = TRUE]), "setup_failure")
    /\ UNCHANGED <<layout, cfg, eng, now, call, states, log, lights, spectrum, raw, norm, probe, source>>

\* the choice of the audio source
AudioSource ==
    /\ link.pc = "audio"
    /\ link' = IF link.demo THEN [link EXCEPT !.pc = "loop"]
               ELSE IF link.pulse /\ ~link.ffmpeg
                    THEN Ended(Disconnect(Teardown(link)), "missing_ffmpeg")
                    ELSE [link EXCEPT !.pc = "start", !.audio = "created"]
    /\ UNCHANGED <<layout, cfg, eng, now, call, states, log, lights, spectrum, raw, norm, probe, source>>

AudioStart ==
    /\ link.pc = "start"
    /\ link' = [link EXCEPT !.pc = "loop", !.audio = "started"]
    /\ UNCHANGED <<layout, cfg, eng, now, call, states, log, lights, spectrum, raw, norm, probe, source>>

\* audio.start() raises
AudioStartFails ==
    /\ link.pc = "start"
    /\ link' = Ended(Disconnect(Teardown(link)), "audio_start_failure")
    /\ UNCHANGED <<layout, cfg, eng, now, call, states, log, lights, spectrum, raw, norm, probe, source>>

\* one pass of the frame loop
LoopFrame ==
    /\ link.pc = "loop"
    /\ link.frame < MaxLoopFrames
    /\ link' = [link EXCEPT !.frame = @ + 1]
    /\ UNCHANGED <<layout, cfg, eng, now, call, states, log, lights, spectrum, raw, norm, probe, source>>

\* the loop is left by KeyboardInterrupt, by an exception of audio.read(), or
\* by an exception of update_lights on a closed connection; the finally
\* block runs, and on a closed connection the _send of teardown raises too
LoopLeft ==
    /\ link.pc = "loop"
    /\ \E how \in {"interrupt", "audio_error", "connection_closed"} :
           /\ how = "audio_error" => link.audio = "started"
           /\ link' = IF how = "connection_closed" /\ link.root_slot_id
                      THEN Ended([StopAudio(link) EXCEPT !.calls = Append(@, "teardown")], how)
                      ELSE Ended(Disconnect(Teardown(StopAudio(link))), how)
    /\ UNCHANGED <<layout, cfg, eng, now, call, states, log, lights, spectrum, raw, norm, probe, source>>

NextExit ==
    \/ SetupRequest
    \/ SetupRequestFails
    \/ AudioSource
    \/ AudioStart
    \/ AudioStartFails
    \/ LoopFrame
    \/ LoopLeft

SpecExit == InitExit /\ [][NextExit]_vars

\* teardown was called, then disconnect, the root slot is gone and no audio
\* source is left started
CleanedUp ==
    /\ \E i \in 1..Len(link.calls), j \in 1..Len(link.calls) :
           i < j /\ link.calls[i] = "teardown" /\ link.calls[j] = "disconnect"
    /\ ~link.world_root
    /\ link.audio # "started"

\* C28 as stated: on every path by which run() ends after connect, teardown
\* is called to remove the root slot, then disconnect, and a started audio
\* source is stopped.
RunEndsCleanedUp == link.pc = "ended" => CleanedUp

\* what the code does: the cleanup is complete when run() ends for a missing
\* ffmpeg, a failed audio start, an interrupt or an audio exception of the
\* loop; after a failed light setup only disconnect is called
RunEndsCleanedUpAfterSetup ==
    link.pc = "ended" =>
        /\ link.how \in {"missing_ffmpeg", "audio_start_failure", "interrupt", "audio_error"} => CleanedUp
        /\ link.how = "setup_failure" => link.calls = <<"disconnect">>

\* the light setup failed after the root slot was created: run() ended with
\* the slot still in the world and teardown never called
SetupFailureLeavesRootWitness ==
    /\ link.pc = "ended"
    /\ link.how = "setup_failure"
    /\ link.step >= 1
    /\ link.world_root
    /\ link.calls = <<"disconnect">>

====
